---------------------------- MODULE Spec2Model ----------------------------
(***************************************************************************)
(* Narrative runtime of wechat-love: Affinity Ledger (CharacterSystem),    *)
(* Mode State Machine (GameStateMachine), Flag Store (FlagManager),        *)
(* Persistence Manager (SaveLoadSystem), Story Interpreter (DialogSystem,  *)
(* StoryManager) and the GameManager that wires them together.             *)
(*                                                                         *)
(* Every public method is one action.  A method is first written as an     *)
(* operator from the component's state to a result record                  *)
(*     [st |-> state after, ev |-> notifications emitted, ...]             *)
(* so that a method which calls another one synchronously is modelled by   *)
(* composing the operators; the action then writes the result into the     *)
(* variables.  `emitted' holds the notifications of the last call and      *)
(* `lastOp' the call itself with its return value.                         *)
(***************************************************************************)
EXTENDS Integers, Sequences, FiniteSets, TLC

VARIABLES
    characters,      \* CharacterSystem._characters : id -> CharacterData
    currentState,    \* GameStateMachine._currentState
    previousState,   \* GameStateMachine._previousState
    stateStack,      \* GameStateMachine._stateStack
    dialogState,     \* GameStateMachine._dialogState
    flags,           \* FlagManager._flags       : key -> BOOLEAN (a Map)
    definitions,     \* FlagManager._definitions : key -> default value
    story,           \* StoryManager: chapter and node cursor, visited, history
    dialog,          \* DialogSystem: current node, typing state, timers
    saveLoad,        \* SaveLoadSystem: slot, autosave settings, busy flag
    storage,         \* the host key-value storage: slot i is key save_i
    now,             \* the host clock, Date.now()
    saveFrame,       \* the save() call that is emitting saveSuccess, if any
    snap,            \* per slot: the game state when its record was written
    hist,            \* what has happened so far that the code keeps no record of
    menuEvents,      \* EventEmitter._events : event -> callbacks, in order
    invoked,         \* the callbacks the last emit called, in order
    emitted,         \* notifications emitted by the last call, in order
    lastOp,          \* the last call: method, arguments, return value
    nops             \* number of calls made so far

ledgerVars == <<characters>>
modeVars   == <<currentState, previousState, stateStack, dialogState>>
flagVars   == <<flags, definitions>>
storyVars  == <<story, dialog>>
saveVars   == <<saveLoad, storage, now, saveFrame, snap, hist>>
menuVars   == <<menuEvents, invoked>>
obsVars    == <<emitted, lastOp, nops>>
vars == <<characters, currentState, previousState, stateStack, dialogState,
          flags, definitions, story, dialog, saveLoad, storage, now, saveFrame,
          snap, hist, menuEvents, invoked, emitted, lastOp, nops>>

(***************************************************************************)
(* Bounds of the exploration.                                              *)
(***************************************************************************)
MaxLedgerOps == 3
MaxProbeOps == 1
MaxModeOps == 7
MaxFlagOps == 4
MaxStoryOps == 5
MaxSaveOps == 4
MaxStorageOps == 3
MaxCondOps == 3
MaxEmitterOps == 5
MaxTimerOps == 6
MaxPlayOps == 4
MaxListeners == 3
\* Date.now() when the game starts, in ms
StartTime == 1000000
ProbeSpan == 20

(***************************************************************************)
(* Generic helpers.                                                        *)
(***************************************************************************)
Max(a, b) == IF a >= b THEN a ELSE b
Min(a, b) == IF a <= b THEN a ELSE b
Range(s) == {s[i] : i \in 1..Len(s)}
includes(s, x) == x \in Range(s)

\* the events and callbacks the menu's emitter is exercised with
EventNames == {"newGame", "continue"}
CallbackNames == {"f", "g"}
CountEv(evs, name) == Cardinality({i \in 1..Len(evs) : evs[i].ev = name})
NoDup(s) == \A i, j \in 1..Len(s) : i # j => s[i] # s[j]

Op(op, id, id2, n, ok, ret) ==
    [op |-> op, id |-> id, id2 |-> id2, n |-> n, ok |-> ok, ret |-> ret]
NoOp == Op("init", "", "", 0, TRUE, 0)

(***************************************************************************)
(* CharacterSystem: the Affinity Ledger.                                   *)
(***************************************************************************)
MaxFavor == 1000
DefaultFavor == 0

\* the roster of loadCharacterConfig
Characters == {"heroine_1", "heroine_2", "heroine_3"}
\* ids a caller may pass: the roster and one id that is not in it
CharacterIds == Characters \cup {"nobody"}
EndingIds == {"end_good", "end_bad"}
EventIds == {"ev_date", "ev_fest"}
Deltas == {-400, 15, 20, 300, 400, 1000}

initializeCharacters ==
    [c \in Characters |->
        [favor |-> DefaultFavor, maxFavor |-> MaxFavor, unlocked |-> FALSE,
         endings |-> <<>>, events |-> <<>>]]

\* Math.max(0, Math.min(maxFavor, x))
ClampNoFloor(x, maxFavor) == Min(maxFavor, x)
Clamp(x, maxFavor) == Max(0, Min(maxFavor, x))

\* favor / maxFavor >= t/100, on integers
levelOfSwapped(favor, maxFavor) ==
    IF favor * 100 >= 85 * maxFavor THEN 7
    ELSE IF favor * 100 >= 70 * maxFavor THEN 6
    ELSE IF favor * 100 >= 55 * maxFavor THEN 5
    ELSE IF favor * 100 >= 40 * maxFavor THEN 3
    ELSE IF favor * 100 >= 25 * maxFavor THEN 4
    ELSE IF favor * 100 >= 10 * maxFavor THEN 2
    ELSE 1
levelOf(favor, maxFavor) ==
    IF favor * 100 >= 85 * maxFavor THEN 7
    ELSE IF favor * 100 >= 70 * maxFavor THEN 6
    ELSE IF favor * 100 >= 55 * maxFavor THEN 5
    ELSE IF favor * 100 >= 40 * maxFavor THEN 4
    ELSE IF favor * 100 >= 25 * maxFavor THEN 3
    ELSE IF favor * 100 >= 10 * maxFavor THEN 2
    ELSE 1

getFavorLevel(chars, c) ==
    IF c \notin DOMAIN chars THEN 0
    ELSE levelOf(chars[c].favor, chars[c].maxFavor)

\* both levels are read after the mutation
checkFavorLevel(chars, c) ==
    LET newLevel == getFavorLevel(chars, c)
        oldLevel == getFavorLevel(chars, c)
    IN IF newLevel # oldLevel
       THEN <<[ev |-> "favorLevelUp", characterId |-> c, newLevel |-> newLevel]>>
       ELSE <<>>

\* the notification carries the requested delta
changeFavorRequested(chars, c, delta) ==
    IF c \notin DOMAIN chars THEN [st |-> chars, ev |-> <<>>, ret |-> 0]
    ELSE
    LET oldFavor == chars[c].favor
        newFavor == Clamp(oldFavor + delta, chars[c].maxFavor)
        after == [chars EXCEPT ![c].favor = newFavor]
        actualChange == newFavor - oldFavor
    IN [st |-> after,
        ev |-> IF actualChange # 0
               THEN <<[ev |-> "favorChanged", characterId |-> c,
                       delta |-> delta, newValue |-> newFavor]>>
               ELSE <<>>,
        ret |-> actualChange]
changeFavor(chars, c, delta) ==
    IF c \notin DOMAIN chars THEN [st |-> chars, ev |-> <<>>, ret |-> 0]
    ELSE
    LET oldFavor == chars[c].favor
        newFavor == Clamp(oldFavor + delta, chars[c].maxFavor)
        after == [chars EXCEPT ![c].favor = newFavor]
        actualChange == newFavor - oldFavor
    IN [st |-> after,
        ev |-> IF actualChange # 0
               THEN <<[ev |-> "favorChanged", characterId |-> c,
                       delta |-> actualChange, newValue |-> newFavor]>>
                    \o checkFavorLevel(after, c)
               ELSE <<>>,
        ret |-> actualChange]

unlockCharacterAlways(chars, c) ==
    IF c \notin DOMAIN chars THEN [st |-> chars, ev |-> <<>>, ok |-> FALSE]
    ELSE [st |-> [chars EXCEPT ![c].unlocked = TRUE],
          ev |-> <<[ev |-> "characterUnlocked", characterId |-> c]>>,
          ok |-> TRUE]
unlockCharacter(chars, c) ==
    IF c \notin DOMAIN chars \/ chars[c].unlocked
    THEN [st |-> chars, ev |-> <<>>, ok |-> FALSE]
    ELSE [st |-> [chars EXCEPT ![c].unlocked = TRUE],
          ev |-> <<[ev |-> "characterUnlocked", characterId |-> c]>>,
          ok |-> TRUE]

unlockEnding(chars, c, endingId) ==
    IF c \notin DOMAIN chars THEN [st |-> chars, ev |-> <<>>, ok |-> FALSE]
    ELSE IF ~includes(chars[c].endings, endingId)
    THEN [st |-> [chars EXCEPT ![c].endings = Append(@, endingId)],
          ev |-> <<[ev |-> "endingUnlocked", characterId |-> c, id |-> endingId]>>,
          ok |-> TRUE]
    ELSE [st |-> chars, ev |-> <<>>, ok |-> FALSE]

recordEvent(chars, c, eventId) ==
    IF c \notin DOMAIN chars THEN [st |-> chars, ev |-> <<>>, ok |-> FALSE]
    ELSE IF ~includes(chars[c].events, eventId)
    THEN [st |-> [chars EXCEPT ![c].events = Append(@, eventId)],
          ev |-> <<[ev |-> "eventRecorded", characterId |-> c, id |-> eventId]>>,
          ok |-> TRUE]
    ELSE [st |-> chars, ev |-> <<>>, ok |-> FALSE]

\* CharacterSystem.reset: hideAllCharacters only touches display nodes
Character_reset(chars) ==
    [c \in DOMAIN chars |->
        [chars[c] EXCEPT !.favor = 0, !.unlocked = FALSE,
                         !.endings = <<>>, !.events = <<>>]]

(***************************************************************************)
(* GameStateMachine: the Mode State Machine.                               *)
(***************************************************************************)
GameState ==
    {"boot", "title", "main_menu", "playing", "dialog", "choice", "event",
     "date", "pause", "inventory", "character", "map", "settings",
     "save_load", "gallery", "achievement", "ending", "credits"}

STATE_TRANSITIONS ==
    [s \in GameState |->
        CASE s = "boot"        -> {"title"}
          [] s = "title"       -> {"main_menu"}
          [] s = "main_menu"   -> {"playing", "save_load", "settings", "gallery"}
          [] s = "playing"     -> {"dialog", "choice", "event", "date", "pause",
                                   "inventory", "character"}
          [] s = "dialog"      -> {"choice", "event", "playing", "ending"}
          [] s = "choice"      -> {"dialog", "event", "playing"}
          [] s = "event"       -> {"dialog", "playing", "ending"}
          [] s = "date"        -> {"playing", "dialog"}
          [] s = "pause"       -> {"playing", "save_load", "settings"}
          [] s = "inventory"   -> {"playing"}
          [] s = "character"   -> {"playing"}
          [] s = "map"         -> {"playing"}
          [] s = "settings"    -> {"main_menu", "pause"}
          [] s = "save_load"   -> {"main_menu", "playing"}
          [] s = "gallery"     -> {"main_menu", "pause"}
          [] s = "achievement" -> {"main_menu", "pause"}
          [] s = "ending"      -> {"credits", "title", "main_menu"}
          [] s = "credits"     -> {"title"}]

\* the machine as one value, for the methods that call each other
Machine == [currentState |-> currentState, previousState |-> previousState,
            stateStack |-> stateStack, dialogState |-> dialogState]

canTransitionAny(m, targetState) == TRUE
canTransition(m, targetState) ==
    /\ m.currentState \in DOMAIN STATE_TRANSITIONS
    /\ targetState \in STATE_TRANSITIONS[m.currentState]

pushStates ==
    {<<"main_menu", "playing">>, <<"playing", "dialog">>, <<"playing", "choice">>,
     <<"playing", "pause">>, <<"playing", "inventory">>, <<"playing", "character">>,
     <<"pause", "save_load">>, <<"pause", "settings">>}

shouldPushToStack(from, to) == <<from, to>> \in pushStates

\* every transition is recorded on the stack
changeStateAlwaysPush(m, newState) ==
    IF ~canTransition(m, newState)
    THEN [st |-> m, ev |-> <<>>, ok |-> FALSE]
    ELSE LET oldState == m.currentState
         IN [st |-> [m EXCEPT !.currentState = newState,
                               !.previousState = oldState,
                               !.stateStack = Append(@, oldState)],
             ev |-> <<[ev |-> "stateChanged", oldState |-> oldState,
                       newState |-> newState]>>,
             ok |-> TRUE]
changeState(m, newState) ==
    IF ~canTransition(m, newState)
    THEN [st |-> m, ev |-> <<>>, ok |-> FALSE]
    ELSE LET oldState == m.currentState
         IN [st |-> [m EXCEPT !.currentState = newState,
                               !.previousState = oldState,
                               !.stateStack = IF shouldPushToStack(oldState, newState)
                                              THEN Append(@, oldState)
                                              ELSE @],
             ev |-> <<[ev |-> "stateChanged", oldState |-> oldState,
                       newState |-> newState]>>,
             ok |-> TRUE]

\* the top of the stack is read but left in place
goBackPeek(m) ==
    IF Len(m.stateStack) = 0
    THEN [st |-> m, ev |-> <<>>, ok |-> FALSE]
    ELSE changeState(m, m.stateStack[Len(m.stateStack)])
\* pop() happens before the transition is requested
goBack(m) ==
    IF Len(m.stateStack) = 0
    THEN [st |-> m, ev |-> <<>>, ok |-> FALSE]
    ELSE LET n == Len(m.stateStack)
             popped == m.stateStack[n]
         IN changeState([m EXCEPT !.stateStack = SubSeq(@, 1, n - 1)], popped)

setDialogState(m, state) ==
    [st |-> [m EXCEPT !.dialogState = state],
     ev |-> <<[ev |-> "dialogStateChanged", state |-> state]>>]

Machine_reset ==
    [currentState |-> "boot", previousState |-> "boot", stateStack |-> <<>>,
     dialogState |-> "waiting"]

isInGame(m) == m.currentState \in {"playing", "dialog", "choice", "event", "date"}
canSave(m) == isInGame(m) \/ m.currentState = "pause"
canLoad(m) == m.currentState \in {"main_menu", "title", "pause"}

(***************************************************************************)
(* FlagManager: the Flag Store.  A store is [flags, definitions]; both are *)
(* Maps, modelled as functions whose domain is the set of keys present.    *)
(***************************************************************************)
\* FLAG_DEFINITIONS: three of the sixteen rows, which all have defaultValue false
FLAG_DEFINITIONS ==
    [k \in {"met_yuqing", "polite", "event_date_1"} |-> FALSE]
\* keys a caller may pass: declared ones, one that addFlag may declare, and
\* one that is never declared
AddableKeys == {"custom"}
FlagKeys == DOMAIN FLAG_DEFINITIONS \cup AddableKeys \cup {"undeclared"}

Put(f, k, v) == [x \in DOMAIN f \cup {k} |-> IF x = k THEN v ELSE f[x]]

\* the constructor
FlagManager_new ==
    [flags |-> [k \in DOMAIN FLAG_DEFINITIONS |-> FLAG_DEFINITIONS[k]],
     definitions |-> FLAG_DEFINITIONS]

FlagStore == [flags |-> flags, definitions |-> definitions]

\* this._flags.get(key) ?? false
Flag_get(S, key) == IF key \in DOMAIN S.flags THEN S.flags[key] ELSE FALSE

\* favor, chapter and item are commented out in the source and return false
Flag_checkCondition(S, condition) ==
    CASE condition.type = "flag" -> Flag_get(S, condition.target) = condition.flag
      [] condition.type \in {"favor", "chapter", "item"} -> FALSE
      [] OTHER -> FALSE

Flag_set(S, key, value) ==
    LET oldValue == Flag_get(S, key)
    IN IF oldValue = value
       THEN [st |-> S, ev |-> <<>>]
       ELSE [st |-> [S EXCEPT !.flags = Put(@, key, value)],
             ev |-> <<[ev |-> "flagChanged", key |-> key, oldValue |-> oldValue,
                       newValue |-> value]>>]

Flag_toggle(S, key) == Flag_set(S, key, ~Flag_get(S, key))

\* only the flags that differ from their declared default
Flag_exportAll(S) == S.flags
Flag_exportData(S) ==
    LET keys == {k \in DOMAIN S.flags :
                    k \in DOMAIN S.definitions /\ S.flags[k] # S.definitions[k]}
    IN [k \in keys |-> S.flags[k]]

\* every declared key back to its default; other keys of the Map stay
Flag_reset(S) ==
    [st |-> [S EXCEPT !.flags =
                [k \in DOMAIN S.flags \cup DOMAIN S.definitions |->
                    IF k \in DOMAIN S.definitions THEN S.definitions[k]
                    ELSE S.flags[k]]],
     ev |-> <<[ev |-> "reset"]>>]

\* for (const [key, value] of Object.entries(data)) this.set(key, value):
\* the keys are distinct, so the entries are taken in one fixed order
RECURSIVE Flag_setEach(_, _, _)
Flag_setEach(S, data, keys) ==
    IF keys = {} THEN [st |-> S, ev |-> <<>>]
    ELSE LET k == CHOOSE x \in keys : TRUE
             r == Flag_set(S, k, data[k])
             rest == Flag_setEach(r.st, data, keys \ {k})
         IN [st |-> rest.st, ev |-> r.ev \o rest.ev]

Flag_importData(S, data) ==
    LET r == Flag_reset(S)
        q == Flag_setEach(r.st, data, DOMAIN data)
    IN [st |-> q.st, ev |-> r.ev \o q.ev]

Flag_addFlag(S, key, defaultValue) ==
    IF key \in DOMAIN S.definitions THEN S
    ELSE [flags |-> Put(S.flags, key, defaultValue),
          definitions |-> Put(S.definitions, key, defaultValue)]

\* flag maps a stored snapshot may carry
ImportKeys == {"polite", "custom"}
FlagData == UNION {[D -> BOOLEAN] : D \in SUBSET ImportKeys}

(***************************************************************************)
(* Story content.  The shipped loadStoryConfig holds two text nodes; the   *)
(* content below is authored data of the same shape (Chapter, StoryNode,   *)
(* ChoiceData, Condition, Effect) that also has choices, effects, an event *)
(* node, an end node, a dangling link and two gated chapters.              *)
(* An absent optional field is "" (ids), <<>> (lists) or NoCondition.      *)
(***************************************************************************)
Effect(type, target, value, flag) ==
    [type |-> type, target |-> target, value |-> value, flag |-> flag]
\* value: the affinity a favor condition asks for; flag: the value a flag
\* condition asks for
Condition(type, target, value, flag) ==
    [type |-> type, target |-> target, value |-> value, flag |-> flag]
NoCondition == Condition("", "", 0, FALSE)

Choice(id, next, conditions, effects, favorChange) ==
    [id |-> id, next |-> next, conditions |-> conditions, effects |-> effects,
     favorChange |-> favorChange]

StoryNode(id, type, next, choices, effects) ==
    [id |-> id, type |-> type, next |-> next, choices |-> choices, effects |-> effects]
NullNode == StoryNode("", "", "", <<>>, <<>>)

Ch00Nodes ==
    [n \in {"ch00_start", "ch00_01", "ch00_c1", "ch00_c2", "ch00_ev", "ch00_end"} |->
        CASE n = "ch00_start" -> StoryNode(n, "narration", "ch00_01", <<>>, <<>>)
          [] n = "ch00_01" -> StoryNode(n, "dialog", "ch00_c1", <<>>, <<>>)
          [] n = "ch00_c1" ->
                StoryNode(n, "choice", "", <<
                    Choice("c1_polite", "ch00_c2", <<>>,
                           <<Effect("flag", "polite", 0, TRUE)>>,
                           <<<<"heroine_1", 15>>>>),
                    Choice("c1_cold", "ch00_02",
                           <<Condition("flag", "polite", 0, FALSE)>>,
                           <<Effect("flag", "cold", 0, TRUE)>>,
                           <<<<"heroine_1", -400>>>>) >>, <<>>)
          [] n = "ch00_c2" ->
                StoryNode(n, "choice", "", <<
                    Choice("c2_walk", "ch00_ev",
                           <<Condition("flag", "met_yuqing", 0, FALSE),
                             Condition("favor", "heroine_1", 100, FALSE)>>, <<>>,
                           <<<<"heroine_1", 20>>>>),
                    Choice("c2_leave", "", <<>>, <<>>, <<>>) >>, <<>>)
          [] n = "ch00_ev" ->
                StoryNode(n, "event", "ch00_end", <<>>,
                          <<Effect("favor", "heroine_1", 300, FALSE),
                            Effect("unlock", "cg_1", 0, FALSE)>>)
          [] n = "ch00_end" -> StoryNode(n, "end", "", <<>>, <<>>)]

Ch01Nodes ==
    [n \in {"ch01_start"} |-> StoryNode(n, "dialog", "", <<>>, <<>>)]

\* as in the shipped ch00, the last node links to a node that is not there
Ch02Nodes ==
    [n \in {"ch02_start"} |-> StoryNode(n, "dialog", "ch02_01", <<>>, <<>>)]

\* first: Object.keys(chapter.nodes)[0]
StoryChapters ==
    << [id |-> "ch00", unlockCondition |-> NoCondition, first |-> "ch00_start",
        nodes |-> Ch00Nodes],
       [id |-> "ch01", unlockCondition |-> Condition("flag", "", 0, TRUE),
        first |-> "ch01_start", nodes |-> Ch01Nodes],
       [id |-> "ch02", unlockCondition |-> Condition("favor", "heroine_1", 500, FALSE),
        first |-> "ch02_start", nodes |-> Ch02Nodes] >>

ChapterIds == {StoryChapters[i].id : i \in 1..Len(StoryChapters)}
\* this._config.chapters.findIndex(c => c.id === id), 0 when there is none
findIndex(chapterId) ==
    IF chapterId \in ChapterIds
    THEN CHOOSE i \in 1..Len(StoryChapters) : StoryChapters[i].id = chapterId
    ELSE 0
NodeIds == UNION {DOMAIN StoryChapters[i].nodes : i \in 1..Len(StoryChapters)}
ChoiceIds ==
    UNION {UNION {{ch.id : ch \in Range(StoryChapters[i].nodes[n].choices)} :
                    n \in DOMAIN StoryChapters[i].nodes} : i \in 1..Len(StoryChapters)}

(***************************************************************************)
(* StoryManager and DialogSystem: the Story Interpreter.  The methods call *)
(* each other and the other singletons synchronously, so they are written  *)
(* over a world W = [m, chars, story, dialog, ev, ret].                    *)
(***************************************************************************)
StoryManager_new ==
    [currentChapter |-> "", currentNodeId |-> "", localFlags |-> <<>>,
     visitedNodes |-> {}, choiceHistory |-> <<>>]

\* listening: StoryManager.playNode has subscribed to requestNode/nodeSelected
\* intervals: live setInterval callbacks; typingTimer: _typingTimer # 0
\* timeouts: pending setTimeout callbacks, by what they call and in the order
\* they were scheduled, each with the id of the node that was current then
DialogSystem_new ==
    [currentNode |-> NullNode, isTyping |-> FALSE, autoMode |-> FALSE,
     typingTimer |-> FALSE, intervals |-> 0,
     timeouts |-> [k \in {"playChoice", "next"} |-> <<>>],
     dialogBox |-> FALSE, choicePanel |-> FALSE, listening |-> FALSE]

World == [m |-> Machine, chars |-> characters, story |-> story,
          dialog |-> dialog, ev |-> <<>>, ret |-> TRUE]

Emit(W, e) == [W EXCEPT !.ev = Append(@, e)]
Ret(W, r) == [W EXCEPT !.ret = r]

W_changeState(W, newState) ==
    LET r == changeState(W.m, newState)
    IN [W EXCEPT !.m = r.st, !.ev = @ \o r.ev]

W_setDialogState(W, state) ==
    LET r == setDialogState(W.m, state)
    IN [W EXCEPT !.m = r.st, !.ev = @ \o r.ev]

W_changeFavor(W, c, delta) ==
    LET r == changeFavor(W.chars, c, delta)
    IN [W EXCEPT !.chars = r.st, !.ev = @ \o r.ev]

\* DialogSystem.changeFavor / setFlag / unlockContent only emit on the
\* DialogSystem's own emitter
Dialog_changeFavor(W, characterId, delta) ==
    Emit(W, [ev |-> "Dialog.favorChanged", characterId |-> characterId,
             delta |-> delta])
Dialog_setFlag(W, flag, value) ==
    Emit(W, [ev |-> "Dialog.flagSet", key |-> flag, newValue |-> value])
Dialog_unlockContent(W, contentId) ==
    Emit(W, [ev |-> "Dialog.contentUnlocked", id |-> contentId])

RECURSIVE Dialog_applyEffects(_, _)
Dialog_applyEffects(W, effects) ==
    IF effects = <<>> THEN W
    ELSE LET e == Head(effects)
             W1 == CASE e.type = "favor" -> Dialog_changeFavor(W, e.target, e.value)
                     [] e.type = "flag" -> Dialog_setFlag(W, e.target, e.flag)
                     [] e.type = "unlock" -> Dialog_unlockContent(W, e.target)
                     [] OTHER -> W
         IN Dialog_applyEffects(W1, Tail(effects))

RECURSIVE Dialog_favorChanges(_, _)
Dialog_favorChanges(W, favorChange) ==
    IF favorChange = <<>> THEN W
    ELSE Dialog_favorChanges(
            Dialog_changeFavor(W, Head(favorChange)[1], Head(favorChange)[2]),
            Tail(favorChange))

RECURSIVE Ledger_favorChanges(_, _)
Ledger_favorChanges(W, favorChange) ==
    IF favorChange = <<>> THEN W
    ELSE Ledger_favorChanges(
            W_changeFavor(W, Head(favorChange)[1], Head(favorChange)[2]),
            Tail(favorChange))

\* TODO in the source: always true
Dialog_checkConditions(W, conditions) == TRUE

clearTypingTimer(W) ==
    IF W.dialog.typingTimer
    THEN [W EXCEPT !.dialog.typingTimer = FALSE, !.dialog.intervals = @ - 1]
    ELSE W

startTyping(W) ==
    [W EXCEPT !.dialog.typingTimer = TRUE, !.dialog.intervals = @ + 1]

Dialog_playDialog(W, node) ==
    LET W1 == W_changeState(W, "dialog")
        W2 == W_setDialogState(W1, "typing")
        W3 == [W2 EXCEPT !.dialog.isTyping = TRUE, !.dialog.dialogBox = TRUE]
    IN startTyping(W3)

Dialog_showChoices(W, choices) ==
    Emit([W EXCEPT !.dialog.choicePanel = TRUE],
         [ev |-> "choicesShown", choices |-> [i \in 1..Len(choices) |-> choices[i].id]])

Dialog_playChoice(W, node) ==
    LET W1 == W_changeState(W, "choice")
        W2 == [W1 EXCEPT !.dialog.isTyping = FALSE]
        Available(choice) ==
            IF choice.conditions = <<>> THEN TRUE
            ELSE Dialog_checkConditions(W2, choice.conditions)
    IN Dialog_showChoices(W2, SelectSeq(node.choices, Available))

Dialog_playEnding(W) ==
    LET W1 == W_changeState(W, "ending")
    IN Emit([W1 EXCEPT !.dialog.dialogBox = FALSE, !.dialog.choicePanel = FALSE],
            [ev |-> "endingTriggered"])

CurrentChapter(W) == StoryChapters[findIndex(W.story.currentChapter)]

RECURSIVE Story_playNode(_, _), Dialog_playNode(_, _), Dialog_next(_)

\* the listeners StoryManager.playNode puts on requestNode and nodeSelected
Dialog_emitNode(W, name, nextNodeId) ==
    LET W1 == Emit(W, [ev |-> name, id |-> nextNodeId])
    IN IF W1.dialog.listening THEN Story_playNode(W1, nextNodeId) ELSE W1

Dialog_next(W) ==
    IF W.dialog.isTyping
    THEN [W EXCEPT !.dialog.isTyping = FALSE]
    ELSE IF W.dialog.currentNode.next # ""
    THEN Dialog_emitNode(W, "requestNode", W.dialog.currentNode.next)
    ELSE Dialog_playEnding(W)

Dialog_playNode(W, node) ==
    LET W1 == [W EXCEPT !.dialog.currentNode = node]
        W2 == Dialog_applyEffects(W1, node.effects)
        W3 == Emit(W2, [ev |-> "allCharactersHidden"])
    IN CASE node.type \in {"dialog", "narration"} -> Dialog_playDialog(W3, node)
         [] node.type = "choice" -> Dialog_playChoice(W3, node)
         [] node.type = "end" -> Dialog_playEnding(W3)
         [] OTHER -> Dialog_next(W3)

\* the cursor is moved before the node is looked up
Story_playNodeCursorFirst(W, nodeId) ==
    IF W.story.currentChapter = "" THEN Ret(W, FALSE)
    ELSE IF nodeId \notin DOMAIN CurrentChapter(W).nodes
    THEN Ret([W EXCEPT !.story.currentNodeId = nodeId], FALSE)
    ELSE LET node == CurrentChapter(W).nodes[nodeId]
             W1 == [W EXCEPT !.story.currentNodeId = nodeId,
                             !.story.visitedNodes = @ \cup {nodeId},
                             !.dialog.listening = TRUE]
             W2 == Dialog_playNode(W1, node)
         IN Ret(Emit(W2, [ev |-> "nodePlayed", id |-> nodeId]), TRUE)
Story_playNode(W, nodeId) ==
    IF W.story.currentChapter = "" THEN Ret(W, FALSE)
    ELSE IF nodeId \notin DOMAIN CurrentChapter(W).nodes THEN Ret(W, FALSE)
    ELSE LET node == CurrentChapter(W).nodes[nodeId]
             W1 == [W EXCEPT !.story.currentNodeId = nodeId,
                             !.story.visitedNodes = @ \cup {nodeId},
                             !.dialog.listening = TRUE]
             W2 == Dialog_playNode(W1, node)
         IN Ret(Emit(W2, [ev |-> "nodePlayed", id |-> nodeId]), TRUE)

Dialog_selectChoice(W, choiceId) ==
    LET found == SelectSeq(W.dialog.currentNode.choices, LAMBDA c : c.id = choiceId)
    IN IF found = <<>> THEN W
       ELSE LET choice == Head(found)
                W1 == Dialog_applyEffects(W, choice.effects)
                W2 == Dialog_favorChanges(W1, choice.favorChange)
                W3 == [W2 EXCEPT !.dialog.choicePanel = FALSE]
            IN IF choice.next # ""
               THEN Dialog_emitNode(W3, "nodeSelected", choice.next)
               ELSE W3

\* StoryManager.getLocalFlag / setLocalFlag
getLocalFlag(W, flag) ==
    IF flag \in DOMAIN W.story.localFlags THEN W.story.localFlags[flag] ELSE FALSE
setLocalFlag(W, flag, value) == [W EXCEPT !.story.localFlags = Put(@, flag, value)]

RECURSIVE Story_applyEffects(_, _)
Story_applyEffects(W, effects) ==
    IF effects = <<>> THEN W
    ELSE LET e == Head(effects)
             W1 == IF e.type = "flag" THEN setLocalFlag(W, e.target, e.flag) ELSE W
         IN Story_applyEffects(W1, Tail(effects))

Story_checkCondition(W, condition) ==
    CASE condition.type = "chapter" -> W.story.visitedNodes # {}
      [] condition.type = "flag" -> getLocalFlag(W, condition.target)
      [] OTHER -> TRUE

Story_playChapter(W, chapterId) ==
    IF chapterId \notin ChapterIds THEN Ret(W, FALSE)
    ELSE LET chapter == StoryChapters[findIndex(chapterId)]
         IN IF chapter.unlockCondition # NoCondition
               /\ ~Story_checkCondition(W, chapter.unlockCondition)
            THEN Ret(Emit(W, [ev |-> "chapterLocked", id |-> chapterId]), FALSE)
            ELSE LET W1 == [W EXCEPT !.story.currentChapter = chapterId]
                     W2 == Story_playNode(W1, chapter.first)
                 IN Ret(Emit(W2, [ev |-> "chapterStarted", id |-> chapterId]), TRUE)

Story_endChapter(W) ==
    LET currentIndex == findIndex(W.story.currentChapter)
    IN IF currentIndex < Len(StoryChapters)
       THEN Story_playChapter(W, StoryChapters[currentIndex + 1].id)
       ELSE Ret(Emit(W_changeState(W, "ending"), [ev |-> "storyEnded"]), TRUE)

Story_next(W) ==
    IF W.story.currentChapter = "" THEN Ret(W, FALSE)
    ELSE LET nodes == CurrentChapter(W).nodes
             id == W.story.currentNodeId
         IN IF id \notin DOMAIN nodes \/ nodes[id].next = ""
            THEN Story_endChapter(W)
            ELSE Story_playNode(W, nodes[id].next)

Story_selectChoice(W, choice) ==
    LET W1 == [W EXCEPT !.story.choiceHistory = Append(@, choice.id)]
        W2 == Story_applyEffects(W1, choice.effects)
        W3 == Ledger_favorChanges(W2, choice.favorChange)
    IN Story_playNode(W3, choice.next)

Story_jumpTo(W, chapterId, nodeId) ==
    LET W1 == IF chapterId # W.story.currentChapter
              THEN Story_playChapter(W, chapterId) ELSE W
    IN Story_playNode(W1, nodeId)

(***************************************************************************)
(* SaveLoadSystem: the Persistence Manager, over the host storage.         *)
(* An optional field of a record that was read back is [defined, value].   *)
(***************************************************************************)
MAX_SLOTS == 6
GAME_VERSION == <<1, 0, 0>>          \* '1.0.0'.split('.'), each part parsed
Slots == 0..(MAX_SLOTS - 1)

Some(v) == [defined |-> TRUE, value |-> v]
Undefined(zero) == [defined |-> FALSE, value |-> zero]

SaveLoadSystem_new ==
    [currentSlot |-> -1, autoSaveEnabled |-> TRUE,
     autoSaveInterval |-> 5 * 60 * 1000, lastAutoSaveTime |-> 0,
     autoSaveNode |-> "", isSaving |-> FALSE, playStartTime |-> 0]

\* what localStorage holds under a key: nothing, text that is not JSON, or
\* the JSON text of a record
NoItem == [kind |-> "none"]
Garbage == [kind |-> "garbage"]
Stringify(data) == [kind |-> "json", data |-> data]

\* Partial<SaveData> as save() reads it; '' stands for an absent field
NoExtra == [chapter |-> "", node |-> ""]

Character_exportData(chars) ==
    [c \in DOMAIN chars |->
        [favor |-> chars[c].favor, unlocked |-> chars[c].unlocked,
         endings |-> chars[c].endings, events |-> chars[c].events]]

Character_importData(chars, data) ==
    [c \in DOMAIN chars |->
        IF c \in DOMAIN data
        THEN [chars[c] EXCEPT !.favor = data[c].favor,
                              !.unlocked = data[c].unlocked,
                              !.endings = data[c].endings,
                              !.events = data[c].events]
        ELSE chars[c]]

\* TODO in the source: returns {}
collectFlags == [k \in {} |-> FALSE]

startPlayTime(S, t) == [S EXCEPT !.playStartTime = t]

calculatePlayTime(S, t) ==
    IF S.playStartTime <= 0 THEN 0 ELSE (t - S.playStartTime) \div 1000

collectSaveData(S, m, chars, slot, extra, t) ==
    [slot |-> slot,
     version |-> Some(GAME_VERSION),
     saveTime |-> t,
     chapter |-> IF extra.chapter # "" THEN extra.chapter ELSE m.currentState,
     node |-> IF extra.node # "" THEN extra.node ELSE S.autoSaveNode,
     characters |-> Some(Character_exportData(chars)),
     flags |-> Some(collectFlags),
     player |-> Some([playTime |-> 0 + calculatePlayTime(S, t), choices |-> <<>>])]

\* localStorage.setItem may throw (quota); setStorage swallows it
setStorage(store, slot, data, writeOk) ==
    IF writeOk THEN [store EXCEPT ![slot] = Stringify(data)] ELSE store

\* null for a missing key and for text JSON.parse rejects
getStorage(store, slot) ==
    IF store[slot].kind = "json"
    THEN [isNull |-> FALSE, data |-> store[slot].data]
    ELSE [isNull |-> TRUE]

\* savedVersion.split('.') throws on a record without a version
checkVersion(savedVersion) ==
    IF ~savedVersion.defined THEN [thrown |-> TRUE, ret |-> FALSE]
    ELSE [thrown |-> FALSE, ret |-> savedVersion.value[1] = GAME_VERSION[1]]

\* the guard at the head of save()
saveNeverBusy(S) == FALSE
saveBusy(S) == S.isSaving

\* save() up to and including emit('saveSuccess'): the listeners run while
\* _isSaving is still set; `entered' says whether the try block was reached
save_try(S, store, m, chars, slot, extra, t, writeOk) ==
    IF saveBusy(S) \/ slot < 0 \/ slot >= MAX_SLOTS
    THEN [st |-> S, storage |-> store, ev |-> <<>>, ret |-> FALSE,
          entered |-> FALSE, slot |-> slot]
    ELSE LET saveData == collectSaveData(S, m, chars, slot, extra, t)
         IN [st |-> [S EXCEPT !.isSaving = TRUE, !.currentSlot = slot],
             storage |-> setStorage(store, slot, saveData, writeOk),
             ev |-> <<[ev |-> "saveSuccess", slot |-> slot]>>,
             ret |-> TRUE, entered |-> TRUE, slot |-> slot]

\* the finally block of save()
save_finallyStillBusy(S) == S
save_finally(S) == [S EXCEPT !.isSaving = FALSE]

\* autoSave() up to the emit of the save() it awaits
\* the slot last used is not looked at
autoSave_trySlotZero(S, store, m, chars, nodeId, t, writeOk) ==
    IF ~S.autoSaveEnabled \/ t - S.lastAutoSaveTime < S.autoSaveInterval
    THEN [st |-> S, storage |-> store, ev |-> <<>>, ret |-> FALSE,
          entered |-> FALSE, slot |-> -1]
    ELSE LET S1 == [S EXCEPT !.lastAutoSaveTime = t, !.autoSaveNode = nodeId]
         IN save_try(S1, store, m, chars, 0,
                     [chapter |-> nodeId, node |-> ""], t, writeOk)
\* the time of the auto-save is not kept
autoSave_tryNoStamp(S, store, m, chars, nodeId, t, writeOk) ==
    IF ~S.autoSaveEnabled \/ t - S.lastAutoSaveTime < S.autoSaveInterval
    THEN [st |-> S, storage |-> store, ev |-> <<>>, ret |-> FALSE,
          entered |-> FALSE, slot |-> -1]
    ELSE LET slot == IF S.currentSlot >= 0 THEN S.currentSlot ELSE 0
             S1 == [S EXCEPT !.autoSaveNode = nodeId]
         IN save_try(S1, store, m, chars, slot,
                     [chapter |-> nodeId, node |-> ""], t, writeOk)
autoSave_try(S, store, m, chars, nodeId, t, writeOk) ==
    IF ~S.autoSaveEnabled \/ t - S.lastAutoSaveTime < S.autoSaveInterval
    THEN [st |-> S, storage |-> store, ev |-> <<>>, ret |-> FALSE,
          entered |-> FALSE, slot |-> -1]
    ELSE LET slot == IF S.currentSlot >= 0 THEN S.currentSlot ELSE 0
             S1 == [S EXCEPT !.lastAutoSaveTime = t, !.autoSaveNode = nodeId]
         IN save_try(S1, store, m, chars, slot,
                     [chapter |-> nodeId, node |-> ""], t, writeOk)

\* outcome: "null", "data", or "throw" when checkVersion throws
load(S, store, slot) ==
    IF slot < 0 \/ slot >= MAX_SLOTS
    THEN [st |-> S, ev |-> <<>>, outcome |-> "null"]
    ELSE LET got == getStorage(store, slot)
         IN IF got.isNull THEN [st |-> S, ev |-> <<>>, outcome |-> "null"]
            ELSE IF checkVersion(got.data.version).thrown
            THEN [st |-> S, ev |-> <<>>, outcome |-> "throw"]
            ELSE [st |-> [S EXCEPT !.currentSlot = slot],
                  ev |-> <<[ev |-> "loadSuccess", slot |-> slot]>>,
                  outcome |-> "data", data |-> got.data]

deleteSave(S, store, slot) ==
    IF slot < 0 \/ slot >= MAX_SLOTS
    THEN [st |-> S, storage |-> store, ev |-> <<>>, ok |-> FALSE]
    ELSE [st |-> IF S.currentSlot = slot THEN [S EXCEPT !.currentSlot = -1] ELSE S,
          storage |-> [store EXCEPT ![slot] = NoItem],
          ev |-> <<[ev |-> "saveDeleted", slot |-> slot]>>, ok |-> TRUE]

setAutoSave(S, enabled) == [S EXCEPT !.autoSaveEnabled = enabled]

\* SaveLoadSystem.applySaveData: the ledger and the play time only
SaveLoad_applySaveData(S, chars, data, t) ==
    [st |-> IF data.player.defined
            THEN [S EXCEPT !.playStartTime = t - data.player.value.playTime * 1000]
            ELSE S,
     chars |-> IF data.characters.defined
               THEN Character_importData(chars, data.characters.value)
               ELSE chars,
     ev |-> <<[ev |-> "dataApplied"]>>]

\* GameManager.applySaveData: the ledger and the flag store
Game_applySaveData(chars, F, data) ==
    LET r == IF data.flags.defined THEN Flag_importData(F, data.flags.value)
             ELSE [st |-> F, ev |-> <<>>]
    IN [chars |-> IF data.characters.defined
                  THEN Character_importData(chars, data.characters.value)
                  ELSE chars,
        flags |-> r.st, ev |-> r.ev]

IdleFrame == [pc |-> "idle", op |-> "", slot |-> -1, ev |-> <<>>]

\* autoTime: when the last autoSave() that wrote a slot ran, -1 before any
\* usedSlot: the slot of the latest save or load that succeeded, -1 when
\*           there is none or that slot has been deleted since
\* restored: the largest playTime among the snapshots restored since the
\*           game was last started anew
NoHist == [autoTime |-> -1, usedSlot |-> -1, restored |-> 0]

HistSaved(r, op, writeOk) ==
    [hist EXCEPT !.usedSlot = IF r.ret THEN r.slot ELSE @,
                 !.autoTime = IF op = "autoSave" /\ r.entered /\ writeOk
                              THEN now ELSE @]
HistLoaded(r, slot, applied) ==
    IF r.outcome # "data" THEN hist
    ELSE [hist EXCEPT !.usedSlot = slot,
                      !.restored = IF applied /\ r.data.player.defined
                                   THEN Max(@, r.data.player.value.playTime)
                                   ELSE @]

\* what the round trip is about: ledger, flags as they read, story cursor
Observed ==
    [defined |-> TRUE,
     characters |-> Character_exportData(characters),
     flags |-> [k \in FlagKeys |-> Flag_get(FlagStore, k)],
     chapter |-> story.currentChapter,
     node |-> story.currentNodeId]
NoSnap == [defined |-> FALSE]

(***************************************************************************)
(* Initial state: every singleton as its constructor and init() leave it.  *)
(***************************************************************************)
\* new Map(): no event has a callback
EventEmitter_new == [e \in EventNames |-> <<>>]

InitRest ==
    /\ currentState = "boot"
    /\ previousState = "boot"
    /\ stateStack = <<>>
    /\ dialogState = "waiting"
    /\ story = StoryManager_new
    /\ dialog = DialogSystem_new
    /\ saveLoad = SaveLoadSystem_new
    /\ storage = [i \in Slots |-> NoItem]
    /\ now = StartTime
    /\ saveFrame = IdleFrame
    /\ snap = [i \in Slots |-> NoSnap]
    /\ hist = NoHist
    /\ menuEvents = EventEmitter_new
    /\ invoked = <<>>
    /\ flags = FlagManager_new.flags
    /\ definitions = FlagManager_new.definitions
    /\ emitted = <<>>
    /\ lastOp = NoOp
    /\ nops = 0

Init ==
    /\ characters = initializeCharacters
    /\ InitRest

\* for the level function: one character starts at any affinity of its range
InitLevel ==
    /\ \E a \in 0..MaxFavor :
          characters = [initializeCharacters EXCEPT !["heroine_1"].favor = a]
    /\ InitRest

\* a call on any component but the menu's event emitter
Tick(bound) == nops < bound /\ nops' = nops + 1 /\ UNCHANGED menuVars

(***************************************************************************)
(* Actions of the Affinity Ledger.                                         *)
(***************************************************************************)
DoChangeFavor(c, d) ==
    LET r == changeFavor(characters, c, d)
    IN /\ characters' = r.st
       /\ emitted' = r.ev
       /\ lastOp' = Op("changeFavor", c, "", d, TRUE, r.ret)
       /\ UNCHANGED <<modeVars, flagVars, storyVars, saveVars>>

DoUnlockCharacter(c) ==
    LET r == unlockCharacter(characters, c)
    IN /\ characters' = r.st
       /\ emitted' = r.ev
       /\ lastOp' = Op("unlockCharacter", c, "", 0, r.ok, 0)
       /\ UNCHANGED <<modeVars, flagVars, storyVars, saveVars>>

DoUnlockEnding(c, e) ==
    LET r == unlockEnding(characters, c, e)
    IN /\ characters' = r.st
       /\ emitted' = r.ev
       /\ lastOp' = Op("unlockEnding", c, e, 0, r.ok, 0)
       /\ UNCHANGED <<modeVars, flagVars, storyVars, saveVars>>

DoRecordEvent(c, e) ==
    LET r == recordEvent(characters, c, e)
    IN /\ characters' = r.st
       /\ emitted' = r.ev
       /\ lastOp' = Op("recordEvent", c, e, 0, r.ok, 0)
       /\ UNCHANGED <<modeVars, flagVars, storyVars, saveVars>>

DoCharacterReset ==
    /\ characters' = Character_reset(characters)
    /\ emitted' = <<>>
    /\ lastOp' = Op("Character.reset", "", "", 0, TRUE, 0)
    /\ UNCHANGED <<modeVars, flagVars, storyVars, saveVars>>

LedgerChangeFavor ==
    Tick(MaxLedgerOps) /\ \E c \in CharacterIds, d \in Deltas : DoChangeFavor(c, d)
LedgerUnlockCharacter ==
    Tick(MaxLedgerOps) /\ \E c \in CharacterIds : DoUnlockCharacter(c)
LedgerUnlockEnding ==
    Tick(MaxLedgerOps) /\ \E c \in CharacterIds, e \in EndingIds : DoUnlockEnding(c, e)
LedgerRecordEvent ==
    Tick(MaxLedgerOps) /\ \E c \in CharacterIds, e \in EventIds : DoRecordEvent(c, e)
LedgerReset ==
    Tick(MaxLedgerOps) /\ DoCharacterReset

NextLedger ==
    \/ LedgerChangeFavor
    \/ LedgerUnlockCharacter
    \/ LedgerUnlockEnding
    \/ LedgerRecordEvent
    \/ LedgerReset

SpecLedger == Init /\ [][NextLedger]_vars

(***************************************************************************)
(* Actions of the Mode State Machine.                                      *)
(***************************************************************************)
SetMachine(m) ==
    /\ currentState' = m.currentState
    /\ previousState' = m.previousState
    /\ stateStack' = m.stateStack
    /\ dialogState' = m.dialogState

DoChangeState(t) ==
    LET r == changeState(Machine, t)
    IN /\ SetMachine(r.st)
       /\ emitted' = r.ev
       /\ lastOp' = Op("changeState", t, "", 0, r.ok, 0)
       /\ UNCHANGED <<ledgerVars, flagVars, storyVars, saveVars>>

DoGoBack ==
    LET r == goBack(Machine)
    IN /\ SetMachine(r.st)
       /\ emitted' = r.ev
       /\ lastOp' = Op("goBack", "", "", 0, r.ok, 0)
       /\ UNCHANGED <<ledgerVars, flagVars, storyVars, saveVars>>

DoMachineReset ==
    /\ SetMachine(Machine_reset)
    /\ emitted' = <<>>
    /\ lastOp' = Op("Machine.reset", "", "", 0, TRUE, 0)
    /\ UNCHANGED <<ledgerVars, flagVars, storyVars, saveVars>>

ModeChangeState == Tick(MaxModeOps) /\ \E t \in GameState : DoChangeState(t)
ModeGoBack == Tick(MaxModeOps) /\ DoGoBack
ModeReset == Tick(MaxModeOps) /\ DoMachineReset

NextMode ==
    \/ ModeChangeState
    \/ ModeGoBack
    \/ ModeReset

SpecMode == Init /\ [][NextMode]_vars

(***************************************************************************)
(* Actions of the Flag Store.                                              *)
(***************************************************************************)
SetFlagStore(S) ==
    /\ flags' = S.flags
    /\ definitions' = S.definitions

DoFlagSet(k, v) ==
    LET r == Flag_set(FlagStore, k, v)
    IN /\ SetFlagStore(r.st)
       /\ emitted' = r.ev
       /\ lastOp' = Op("Flag.set", k, "", 0, v, 0)
       /\ UNCHANGED <<ledgerVars, modeVars, storyVars, saveVars>>

DoFlagToggle(k) ==
    LET r == Flag_toggle(FlagStore, k)
    IN /\ SetFlagStore(r.st)
       /\ emitted' = r.ev
       /\ lastOp' = Op("Flag.toggle", k, "", 0, ~Flag_get(FlagStore, k), 0)
       /\ UNCHANGED <<ledgerVars, modeVars, storyVars, saveVars>>

DoFlagAdd(k, d) ==
    /\ SetFlagStore(Flag_addFlag(FlagStore, k, d))
    /\ emitted' = <<>>
    /\ lastOp' = Op("Flag.addFlag", k, "", 0, d, 0)
    /\ UNCHANGED <<ledgerVars, modeVars, storyVars, saveVars>>

DoFlagReset ==
    LET r == Flag_reset(FlagStore)
    IN /\ SetFlagStore(r.st)
       /\ emitted' = r.ev
       /\ lastOp' = Op("Flag.reset", "", "", 0, TRUE, 0)
       /\ UNCHANGED <<ledgerVars, modeVars, storyVars, saveVars>>

DoFlagImport(data) ==
    LET r == Flag_importData(FlagStore, data)
    IN /\ SetFlagStore(r.st)
       /\ emitted' = r.ev
       /\ lastOp' = Op("Flag.importData", "", "", Cardinality(DOMAIN data), TRUE, 0)
       /\ UNCHANGED <<ledgerVars, modeVars, storyVars, saveVars>>

FlagsSet == Tick(MaxFlagOps) /\ \E k \in FlagKeys, v \in BOOLEAN : DoFlagSet(k, v)
FlagsToggle == Tick(MaxFlagOps) /\ \E k \in FlagKeys : DoFlagToggle(k)
FlagsAdd == Tick(MaxFlagOps) /\ \E k \in AddableKeys, d \in BOOLEAN : DoFlagAdd(k, d)
FlagsReset == Tick(MaxFlagOps) /\ DoFlagReset
FlagsImport == Tick(MaxFlagOps) /\ \E data \in FlagData : DoFlagImport(data)



(***************************************************************************)
(* The level function, applied over the whole affinity range.              *)
(***************************************************************************)
LevelChangeFavor ==
    Tick(MaxProbeOps) /\ \E d \in (-ProbeSpan)..ProbeSpan : DoChangeFavor("heroine_1", d)
LevelChangeFavorFar ==
    Tick(MaxProbeOps) /\ \E d \in Deltas : DoChangeFavor("heroine_1", d)

NextLevel ==
    \/ LevelChangeFavor
    \/ LevelChangeFavorFar

SpecLevel == InitLevel /\ [][NextLevel]_vars

(***************************************************************************)
(* Actions of the Story Interpreter.  Timers are the host's: a live        *)
(* interval or a pending timeout fires whenever the host gets to it.       *)
(***************************************************************************)
SetWorld(W) ==
    /\ characters' = W.chars
    /\ SetMachine(W.m)
    /\ story' = W.story
    /\ dialog' = W.dialog
    /\ emitted' = W.ev

AllChoices ==
    UNION {UNION {Range(StoryChapters[i].nodes[n].choices) :
                    n \in DOMAIN StoryChapters[i].nodes} : i \in 1..Len(StoryChapters)}

DoStoryPlayChapter(chapterId) ==
    LET W == Story_playChapter(World, chapterId)
    IN /\ SetWorld(W)
       /\ UNCHANGED <<flagVars, saveVars>>
       /\ lastOp' = Op("Story.playChapter", chapterId, "", 0, W.ret, 0)

DoStoryPlayNode(nodeId) ==
    LET W == Story_playNode(World, nodeId)
    IN /\ SetWorld(W)
       /\ UNCHANGED <<flagVars, saveVars>>
       /\ lastOp' = Op("Story.playNode", nodeId, "", 0, W.ret, 0)

DoStoryNext ==
    LET W == Story_next(World)
    IN /\ SetWorld(W)
       /\ UNCHANGED <<flagVars, saveVars>>
       /\ lastOp' = Op("Story.next", "", "", 0, W.ret, 0)

DoStorySelectChoice(choice) ==
    LET W == Story_selectChoice(World, choice)
    IN /\ SetWorld(W)
       /\ UNCHANGED <<flagVars, saveVars>>
       /\ lastOp' = Op("Story.selectChoice", choice.id, choice.next, 0, W.ret, 0)

\* a null _currentNode makes `this._currentNode.choices' throw
DoDialogSelectChoice(choiceId) ==
    IF dialog.currentNode = NullNode
    THEN /\ lastOp' = Op("Dialog.selectChoice", choiceId, "throw", 0, FALSE, 0)
         /\ emitted' = <<>>
         /\ UNCHANGED <<ledgerVars, modeVars, flagVars, storyVars, saveVars>>
    ELSE LET W == Dialog_selectChoice(World, choiceId)
             known == \E c \in Range(dialog.currentNode.choices) : c.id = choiceId
         IN /\ SetWorld(W)
            /\ UNCHANGED <<flagVars, saveVars>>
            /\ lastOp' = Op("Dialog.selectChoice", choiceId,
                            IF known THEN "applied" ELSE "ignored", 0, known, 0)

DoDialogNext ==
    IF dialog.currentNode = NullNode /\ ~dialog.isTyping
    THEN /\ lastOp' = Op("Dialog.next", "", "throw", 0, FALSE, 0)
         /\ emitted' = <<>>
         /\ UNCHANGED <<ledgerVars, modeVars, flagVars, storyVars, saveVars>>
    ELSE LET W == Dialog_next(World)
         IN /\ SetWorld(W)
            /\ UNCHANGED <<flagVars, saveVars>>
            /\ lastOp' = Op("Dialog.next", "", "", 0, TRUE, 0)

onTypingComplete(W) ==
    LET W1 == clearTypingTimer(W)
        W2 == W_setDialogState([W1 EXCEPT !.dialog.isTyping = FALSE], "complete")
        W3 == IF W2.dialog.currentNode.choices # <<>>
              THEN [W2 EXCEPT !.dialog.timeouts["playChoice"] =
                                  Append(@, W2.dialog.currentNode.id)] ELSE W2
        W4 == IF W3.dialog.autoMode
              THEN [W3 EXCEPT !.dialog.timeouts["next"] =
                                  Append(@, W3.dialog.currentNode.id)] ELSE W3
    IN Emit(W4, [ev |-> "typingComplete"])

\* one firing of a live setInterval callback of startTyping; `last' says
\* whether this tick displays the last character
DoTypingTick(last) ==
    /\ dialog.intervals > 0
    /\ LET W == IF ~dialog.isTyping THEN clearTypingTimer(World)
                ELSE IF last THEN onTypingComplete(World) ELSE World
       IN /\ SetWorld(W)
          /\ UNCHANGED <<flagVars, saveVars>>
          /\ lastOp' = Op("Dialog.typingTick", "", "", dialog.intervals, last, 0)

DoFireTimeout(k) ==
    /\ dialog.timeouts[k] # <<>>
    /\ LET W0 == [World EXCEPT !.dialog.timeouts[k] = Tail(@)]
           W == IF k = "playChoice" THEN Dialog_playChoice(W0, W0.dialog.currentNode)
                ELSE Dialog_next(W0)
       IN /\ SetWorld(W)
          /\ UNCHANGED <<flagVars, saveVars>>
          /\ lastOp' = Op("Dialog.timeout", k, "", 0, TRUE, 0)

DoSetAutoMode(enabled) ==
    /\ dialog' = [dialog EXCEPT !.autoMode = enabled]
    /\ story' = story
    /\ emitted' = <<>>
    /\ lastOp' = Op("Dialog.setAutoMode", "", "", 0, enabled, 0)
    /\ UNCHANGED <<ledgerVars, modeVars, flagVars, saveVars>>

DoDialogPause ==
    LET W == IF dialog.isTyping THEN clearTypingTimer(World) ELSE World
    IN /\ SetWorld(W)
       /\ UNCHANGED <<flagVars, saveVars>>
       /\ lastOp' = Op("Dialog.pause", "", "", 0, TRUE, 0)

DoDialogResume ==
    LET W == IF dialog.isTyping THEN startTyping(World) ELSE World
    IN /\ SetWorld(W)
       /\ UNCHANGED <<flagVars, saveVars>>
       /\ lastOp' = Op("Dialog.resume", "", "", 0, TRUE, 0)


(***************************************************************************)
(* Actions of the Persistence Manager and of the GameManager.  save() has  *)
(* no await before its emit, so a call runs to emit('saveSuccess') in one  *)
(* step; what a listener calls runs while the frame is "emitting", and     *)
(* SaveReturn is the finally block and the return.                         *)
(***************************************************************************)
Idle == saveFrame.pc = "idle"

SaveEnter(r, op, writeOk) ==
    /\ saveLoad' = r.st
    /\ storage' = r.storage
    /\ emitted' = r.ev
    /\ saveFrame' = IF r.entered
                    THEN [pc |-> "emitting", op |-> op, slot |-> r.slot, ev |-> r.ev]
                    ELSE IdleFrame
    /\ snap' = IF r.entered /\ writeOk THEN [snap EXCEPT ![r.slot] = Observed]
               ELSE snap
    /\ hist' = HistSaved(r, op, writeOk)
    /\ lastOp' = Op(op, "", IF r.entered THEN "emitting" ELSE "returned",
                    r.slot, r.ret, IF r.entered THEN 1 ELSE 0)
    /\ UNCHANGED <<now, ledgerVars, modeVars, flagVars, storyVars>>

\* SaveLoadSystem.save(slot, data); GameManager.saveGame(slot) is save(slot)
DoSave(slot, extra, writeOk) ==
    SaveEnter(save_try(saveLoad, storage, Machine, characters, slot, extra,
                       now, writeOk), "save", writeOk)

DoAutoSave(nodeId, writeOk) ==
    SaveEnter(autoSave_try(saveLoad, storage, Machine, characters, nodeId,
                           now, writeOk), "autoSave", writeOk)

DoSaveReturn ==
    /\ saveFrame.pc = "emitting"
    /\ saveLoad' = save_finally(saveLoad)
    /\ saveFrame' = IdleFrame
    /\ emitted' = saveFrame.ev \o
                  (IF saveFrame.op = "autoSave"
                   THEN <<[ev |-> "autoSaveSuccess", slot |-> saveFrame.slot]>>
                   ELSE <<>>)
    /\ lastOp' = Op(saveFrame.op, "", "returned", saveFrame.slot, TRUE, 0)
    /\ UNCHANGED <<storage, now, snap, hist, nops, menuVars,
                   ledgerVars, modeVars, flagVars, storyVars>>

\* a call made by a listener of saveSuccess; lastOp.ret counts the save()
\* calls that are past the guard while this one runs
NestedEnter(r, op, writeOk) ==
    /\ saveFrame.pc = "emitting"
    /\ saveLoad' = IF r.entered THEN save_finally(r.st) ELSE r.st
    /\ storage' = r.storage
    /\ emitted' = r.ev \o (IF op = "autoSave" /\ r.ret
                           THEN <<[ev |-> "autoSaveSuccess", slot |-> r.slot]>>
                           ELSE <<>>)
    /\ snap' = IF r.entered /\ writeOk THEN [snap EXCEPT ![r.slot] = Observed]
               ELSE snap
    /\ hist' = HistSaved(r, op, writeOk)
    /\ lastOp' = Op(op, "", "nested", r.slot, r.ret, IF r.entered THEN 2 ELSE 1)
    /\ UNCHANGED <<saveFrame, now, ledgerVars, modeVars, flagVars, storyVars>>

DoNestedSave(slot, extra, writeOk) ==
    NestedEnter(save_try(saveLoad, storage, Machine, characters, slot, extra,
                         now, writeOk), "save", writeOk)

DoNestedAutoSave(nodeId, writeOk) ==
    NestedEnter(autoSave_try(saveLoad, storage, Machine, characters, nodeId,
                             now, writeOk), "autoSave", writeOk)

DoLoad(slot) ==
    LET r == load(saveLoad, storage, slot)
    IN /\ saveLoad' = r.st
       /\ emitted' = r.ev
       /\ lastOp' = Op("load", "", r.outcome, slot, r.outcome = "data", 0)
       /\ hist' = HistLoaded(r, slot, FALSE)
       /\ UNCHANGED <<storage, now, saveFrame, snap,
                      ledgerVars, modeVars, flagVars, storyVars>>

\* GameManager.loadGame
DoLoadGame(slot) ==
    LET r == load(saveLoad, storage, slot)
    IN /\ saveLoad' = r.st
       /\ lastOp' = Op("loadGame", "", r.outcome, slot, r.outcome = "data", 0)
       /\ IF r.outcome = "data"
          THEN LET a == Game_applySaveData(characters, FlagStore, r.data)
               IN /\ characters' = a.chars
                  /\ SetFlagStore(a.flags)
                  /\ emitted' = r.ev \o a.ev
          ELSE /\ emitted' = r.ev
               /\ UNCHANGED <<ledgerVars, flagVars>>
       /\ hist' = HistLoaded(r, slot, TRUE)
       /\ UNCHANGED <<storage, now, saveFrame, snap, modeVars, storyVars>>

\* GameManager.continueGame
DoContinueGame(slot) ==
    LET r == load(saveLoad, storage, slot)
    IN /\ saveLoad' = r.st
       /\ lastOp' = Op("continueGame", "", r.outcome, slot, r.outcome = "data", 0)
       /\ IF r.outcome = "data"
          THEN LET a == Game_applySaveData(characters, FlagStore, r.data)
                   W0 == [World EXCEPT !.chars = a.chars, !.ev = r.ev \o a.ev]
                   W1 == W_changeState(W0, "playing")
                   W2 == Story_jumpTo(W1, r.data.chapter, r.data.node)
               IN /\ SetWorld(W2)
                  /\ SetFlagStore(a.flags)
          ELSE /\ emitted' = r.ev
               /\ UNCHANGED <<ledgerVars, modeVars, flagVars, storyVars>>
       /\ hist' = HistLoaded(r, slot, TRUE)
       /\ UNCHANGED <<storage, now, saveFrame, snap>>

\* SaveLoadSystem.applySaveData(data), data being the record of a slot
DoApplySaveData(slot) ==
    /\ slot \in Slots
    /\ ~getStorage(storage, slot).isNull
    /\ LET r == SaveLoad_applySaveData(saveLoad, characters,
                                       getStorage(storage, slot).data, now)
       IN /\ saveLoad' = r.st
          /\ characters' = r.chars
          /\ emitted' = r.ev
          /\ lastOp' = Op("applySaveData", "", "", slot, TRUE, 0)
    /\ hist' = LET data == getStorage(storage, slot).data
               IN [hist EXCEPT !.restored = IF data.player.defined
                                            THEN Max(@, data.player.value.playTime)
                                            ELSE @]
    /\ UNCHANGED <<storage, now, saveFrame, snap, modeVars, flagVars, storyVars>>

DoDeleteSave(slot) ==
    LET r == deleteSave(saveLoad, storage, slot)
    IN /\ saveLoad' = r.st
       /\ storage' = r.storage
       /\ emitted' = r.ev
       /\ snap' = IF r.ok THEN [snap EXCEPT ![slot] = NoSnap] ELSE snap
       /\ hist' = IF r.ok /\ hist.usedSlot = slot THEN [hist EXCEPT !.usedSlot = -1]
                  ELSE hist
       /\ lastOp' = Op("deleteSave", "", "", slot, r.ok, 0)
       /\ UNCHANGED <<now, saveFrame, ledgerVars, modeVars, flagVars, storyVars>>

DoSetAutoSave(enabled) ==
    /\ saveLoad' = setAutoSave(saveLoad, enabled)
    /\ emitted' = <<>>
    /\ lastOp' = Op("setAutoSave", "", "", 0, enabled, 0)
    /\ UNCHANGED <<storage, now, saveFrame, snap, hist,
                   ledgerVars, modeVars, flagVars, storyVars>>

\* the host clock moves on
DoAdvanceClock(dt) ==
    /\ now' = now + dt
    /\ UNCHANGED <<saveLoad, storage, saveFrame, snap, hist, emitted, lastOp,
                   ledgerVars, modeVars, flagVars, storyVars>>

\* GameManager.startGameFlow, the last step of GameManager.init
DoStartGameFlow ==
    LET r == changeState(Machine, "title")
    IN /\ SetMachine(r.st)
       /\ emitted' = r.ev
       /\ lastOp' = Op("startGameFlow", "", "", 0, r.ok, 0)
       /\ UNCHANGED <<ledgerVars, flagVars, storyVars, saveVars>>

Story_reset(W) == [W EXCEPT !.story = StoryManager_new]

\* GameManager.startNewGame: resetGameData, changeState(PLAYING), ch00
DoStartNewGame ==
    LET fr == Flag_reset(FlagStore)
        W0 == Story_reset([World EXCEPT !.chars = Character_reset(characters),
                                        !.ev = fr.ev])
        W1 == W_changeState(W0, "playing")
        W2 == Story_playChapter(W1, "ch00")
    IN /\ SetWorld(W2)
       /\ SetFlagStore(fr.st)
       /\ saveLoad' = startPlayTime(saveLoad, now)
       /\ lastOp' = Op("startNewGame", "", "", 0, W2.ret, 0)
       /\ hist' = [hist EXCEPT !.restored = 0]
       /\ UNCHANGED <<storage, now, saveFrame, snap>>

(***************************************************************************)
(* The flags over a play-through: set, toggled, added to, imported, reset, *)
(* and the game started anew.                                              *)
(***************************************************************************)
FlagsStartNewGame == Tick(MaxFlagOps) /\ DoStartNewGame

NextFlags ==
    \/ FlagsSet
    \/ FlagsToggle
    \/ FlagsAdd
    \/ FlagsReset
    \/ FlagsImport
    \/ FlagsStartNewGame

SpecFlags == Init /\ [][NextFlags]_vars

(***************************************************************************)
(* The story played: chapters, nodes, choices, and the host's timers.      *)
(***************************************************************************)
StoryStartGameFlow == Tick(MaxStoryOps) /\ DoStartGameFlow
\* the title screen hands over to the main menu
StoryEnterMenu == Tick(MaxStoryOps) /\ DoChangeState("main_menu")
StoryStartNewGame == Tick(MaxStoryOps) /\ DoStartNewGame
StoryPlayChapter == Tick(MaxStoryOps) /\ \E ch \in ChapterIds \cup {"ch99"} : DoStoryPlayChapter(ch)
StoryPlayNode == Tick(MaxStoryOps) /\ \E n \in {"ch00_c1", "ch00_ev", "ch00_end", "ch00_02"} : DoStoryPlayNode(n)
StoryNext == Tick(MaxStoryOps) /\ DoStoryNext
StorySelectChoice == Tick(MaxStoryOps) /\ \E choice \in AllChoices : DoStorySelectChoice(choice)
DialogSelectChoice == Tick(MaxStoryOps) /\ \E id \in ChoiceIds \cup {"none"} : DoDialogSelectChoice(id)
DialogNext == Tick(MaxStoryOps) /\ DoDialogNext
TypingTick == Tick(MaxStoryOps) /\ \E last \in BOOLEAN : DoTypingTick(last)
FireTimeout == Tick(MaxStoryOps) /\ \E k \in {"playChoice", "next"} : DoFireTimeout(k)
SetAutoMode == Tick(MaxStoryOps) /\ \E b \in BOOLEAN : DoSetAutoMode(b)
DialogPause == Tick(MaxStoryOps) /\ DoDialogPause
DialogResume == Tick(MaxStoryOps) /\ DoDialogResume

NextStory ==
    \/ StoryStartGameFlow
    \/ StoryEnterMenu
    \/ StoryStartNewGame
    \/ StoryPlayChapter
    \/ StoryPlayNode
    \/ StoryNext
    \/ StorySelectChoice
    \/ DialogSelectChoice
    \/ DialogNext
    \/ TypingTick
    \/ FireTimeout
    \/ SetAutoMode
    \/ DialogPause
    \/ DialogResume

SpecStory == Init /\ [][NextStory]_vars

(***************************************************************************)
(* The game around a save: start, play, change affinity and flags, save,   *)
(* let time pass, load back.                                               *)
(***************************************************************************)
SlotInputs == {-1, 0, 1, MAX_SLOTS}
\* save(slot) as GameManager.saveGame calls it, or with StoryManager.getProgress()
Extras == {NoExtra, [chapter |-> story.currentChapter, node |-> story.currentNodeId]}
ClockSteps == {1000, 5 * 60 * 1000}

SaveStartGameFlow == Tick(MaxSaveOps) /\ Idle /\ DoStartGameFlow
SaveStartNewGame == Tick(MaxSaveOps) /\ Idle /\ DoStartNewGame
SavePlayNode == Tick(MaxSaveOps) /\ Idle /\ DoStoryPlayNode("ch00_c1")
SaveSelectChoice ==
    /\ Tick(MaxSaveOps) /\ Idle
    /\ \E choice \in {c \in AllChoices : c.id = "c1_polite"} : DoStorySelectChoice(choice)
SaveChangeFavor == Tick(MaxSaveOps) /\ Idle /\ \E d \in {15, 400} : DoChangeFavor("heroine_1", d)
SaveFlagSet == Tick(MaxSaveOps) /\ Idle /\ \E v \in BOOLEAN : DoFlagSet("polite", v)
SaveSave ==
    /\ Tick(MaxSaveOps) /\ Idle
    /\ \E slot \in SlotInputs :
          \E extra \in IF slot \in Slots THEN Extras ELSE {NoExtra},
             writeOk \in IF slot \in Slots THEN BOOLEAN ELSE {TRUE} :
                DoSave(slot, extra, writeOk)
SaveAutoSave ==
    /\ Tick(MaxSaveOps) /\ Idle
    /\ \E nodeId \in {"", story.currentNodeId}, writeOk \in BOOLEAN :
          DoAutoSave(nodeId, writeOk)
SaveReturn == DoSaveReturn
NestedSave ==
    /\ Tick(MaxSaveOps)
    /\ \E slot \in SlotInputs : DoNestedSave(slot, NoExtra, TRUE)
NestedAutoSave == Tick(MaxSaveOps) /\ DoNestedAutoSave("", TRUE)
SaveLoad == Tick(MaxSaveOps) /\ Idle /\ \E slot \in SlotInputs : DoLoad(slot)
SaveContinueGame == Tick(MaxSaveOps) /\ Idle /\ \E slot \in SlotInputs : DoContinueGame(slot)
SaveDeleteSave == Tick(MaxSaveOps) /\ Idle /\ \E slot \in {0, 1, MAX_SLOTS} : DoDeleteSave(slot)
SaveSetAutoSave == Tick(MaxSaveOps) /\ Idle /\ \E b \in BOOLEAN : DoSetAutoSave(b)
SaveAdvanceClock == Tick(MaxSaveOps) /\ Idle /\ \E dt \in ClockSteps : DoAdvanceClock(dt)

NextSave ==
    \/ SaveStartGameFlow
    \/ SaveStartNewGame
    \/ SavePlayNode
    \/ SaveSelectChoice
    \/ SaveChangeFavor
    \/ SaveFlagSet
    \/ SaveSave
    \/ SaveAutoSave
    \/ SaveReturn
    \/ NestedSave
    \/ NestedAutoSave
    \/ SaveLoad
    \/ SaveContinueGame
    \/ SaveDeleteSave
    \/ SaveSetAutoSave
    \/ SaveAdvanceClock

SpecSave == Init /\ [][NextSave]_vars

(***************************************************************************)
(* Loading from a storage the game did not fill itself: a slot may hold    *)
(* text that is not JSON, a record without the fields save() writes, or a  *)
(* record of another version whose values are outside the game's ranges.   *)
(***************************************************************************)
NoPlayer == [playTime |-> 0, choices |-> <<>>]
BareRecord ==
    [slot |-> 0, version |-> Undefined(<<>>), saveTime |-> 0,
     chapter |-> "", node |-> "",
     characters |-> Undefined([c \in {} |-> 0]),
     flags |-> Undefined([k \in {} |-> FALSE]),
     player |-> Undefined(NoPlayer)]
OtherVersionRecord ==
    [slot |-> 0, version |-> Some(<<2, 0, 0>>), saveTime |-> 0,
     chapter |-> "ch00", node |-> "ch00_c1",
     characters |-> Some([c \in {"heroine_1", "stranger"} |->
                            [favor |-> 1500, unlocked |-> TRUE,
                             endings |-> <<>>, events |-> <<>>]]),
     flags |-> Some([k \in {"polite"} |-> TRUE]),
     player |-> Some([playTime |-> 60, choices |-> <<>>])]
StoredItems ==
    {NoItem, Garbage, Stringify(BareRecord), Stringify(OtherVersionRecord)}

InitStorage ==
    /\ characters = initializeCharacters
    /\ currentState = "title"
    /\ previousState = "boot"
    /\ stateStack = <<>>
    /\ dialogState = "waiting"
    /\ story = StoryManager_new
    /\ dialog = DialogSystem_new
    /\ flags = FlagManager_new.flags
    /\ definitions = FlagManager_new.definitions
    /\ saveLoad = SaveLoadSystem_new
    /\ \E a \in StoredItems, b \in StoredItems :
          storage = [i \in Slots |-> IF i = 0 THEN a ELSE IF i = 1 THEN b ELSE NoItem]
    /\ now = StartTime
    /\ saveFrame = IdleFrame
    /\ snap = [i \in Slots |-> NoSnap]
    /\ hist = NoHist
    /\ menuEvents = EventEmitter_new
    /\ invoked = <<>>
    /\ emitted = <<>>
    /\ lastOp = NoOp
    /\ nops = 0

StorageLoad == Tick(MaxStorageOps) /\ Idle /\ \E slot \in SlotInputs : DoLoad(slot)
StorageLoadGame == Tick(MaxStorageOps) /\ Idle /\ \E slot \in SlotInputs : DoLoadGame(slot)
StorageContinueGame == Tick(MaxStorageOps) /\ Idle /\ \E slot \in SlotInputs : DoContinueGame(slot)
StorageApplySaveData == Tick(MaxStorageOps) /\ Idle /\ \E slot \in Slots : DoApplySaveData(slot)
StorageSave == Tick(MaxStorageOps) /\ Idle /\ \E slot \in SlotInputs : DoSave(slot, NoExtra, TRUE)
StorageSaveReturn == DoSaveReturn
StorageDeleteSave == Tick(MaxStorageOps) /\ Idle /\ \E slot \in SlotInputs : DoDeleteSave(slot)
StorageChangeFavor ==
    /\ Tick(MaxStorageOps) /\ Idle
    /\ \E c \in {"heroine_1", "heroine_2"}, d \in {-400, 15} : DoChangeFavor(c, d)
StorageCharacterReset == Tick(MaxStorageOps) /\ Idle /\ DoCharacterReset

NextStorage ==
    \/ StorageLoad
    \/ StorageLoadGame
    \/ StorageContinueGame
    \/ StorageApplySaveData
    \/ StorageSave
    \/ StorageSaveReturn
    \/ StorageDeleteSave
    \/ StorageChangeFavor
    \/ StorageCharacterReset

SpecStorage == InitStorage /\ [][NextStorage]_vars

(***************************************************************************)
(* Properties.                                                             *)
(***************************************************************************)

\* C1: after changeFavor(c, d), and so in every state reached by ledger
\* calls from initialisation, every affinity lies in [0, maxFavor].
C1_FavorWithinBounds ==
    \A c \in DOMAIN characters :
        /\ 0 <= characters[c].favor
        /\ characters[c].favor <= characters[c].maxFavor

\* a negative delta was cut short at 0
C1_Witness ==
    /\ lastOp.op = "changeFavor"
    /\ lastOp.id \in Characters
    /\ lastOp.n < 0
    /\ lastOp.ret # lastOp.n
    /\ characters[lastOp.id].favor = 0

\* C2: changeState(t) with t outside the allowed set of the current state
\* returns false, changes neither currentState, previousState nor the stack,
\* and emits nothing; playing -> credits is such a request.
C2_IllegalTransitionRejected ==
    [][(lastOp'.op = "changeState" /\ nops' # nops) =>
        /\ (lastOp'.id \notin STATE_TRANSITIONS[currentState]) =>
              /\ lastOp'.ok = FALSE
              /\ UNCHANGED <<currentState, previousState, stateStack, dialogState>>
              /\ emitted' = <<>>
        /\ (currentState = "playing" /\ lastOp'.id = "credits") =>
              /\ lastOp'.ok = FALSE
              /\ currentState' = "playing"]_vars

C2_Witness ==
    /\ lastOp.op = "changeState"
    /\ lastOp.id = "credits"
    /\ lastOp.ok = FALSE
    /\ currentState = "playing"
    /\ emitted = <<>>

\* C5: changeFavor emits one level-up notification when the level after the
\* call differs from the level before it, and none otherwise.
C5_LevelUpIffLevelChanged ==
    [][(lastOp'.op = "changeFavor" /\ nops' # nops /\ lastOp'.id \in Characters) =>
        CountEv(emitted', "favorLevelUp") =
            IF getFavorLevel(characters', lastOp'.id)
                   # getFavorLevel(characters, lastOp'.id)
            THEN 1 ELSE 0]_vars

\* C8: the level is the step function of favor/maxFavor over the thresholds
\* 0.10, 0.25, 0.40, 0.55, 0.70, 0.85, and never decreases when the affinity
\* grows; 0 gives level 1 and 0.85 x max gives level 7.
Thresholds == {<<10, 2>>, <<25, 3>>, <<40, 4>>, <<55, 5>>, <<70, 6>>, <<85, 7>>}
C8_LevelIsMonotoneStep ==
    \A c \in DOMAIN characters :
        LET f == characters[c].favor
            m == characters[c].maxFavor
            old == IF lastOp.op = "changeFavor" /\ lastOp.id = c
                   THEN f - lastOp.ret ELSE f
            lvl == getFavorLevel(characters, c)
            oldLvl == getFavorLevel([characters EXCEPT ![c].favor = old], c)
        IN /\ lvl \in 1..7
           /\ \A t \in Thresholds : (f * 100 >= t[1] * m) <=> (lvl >= t[2])
           /\ (old <= f) => (oldLvl <= lvl)
           /\ (old >= f) => (oldLvl >= lvl)
           /\ (f = 0) => (lvl = 1)
           /\ (f * 100 = 85 * m) => (lvl = 7)

\* the affinity rose to exactly 0.85 x max and the level rose to 7
C8_Witness ==
    /\ lastOp.op = "changeFavor"
    /\ lastOp.ret > 0
    /\ characters["heroine_1"].favor * 100 = 85 * characters["heroine_1"].maxFavor
    /\ getFavorLevel(characters, "heroine_1") = 7
    /\ getFavorLevel([characters EXCEPT !["heroine_1"].favor = @ - lastOp.ret],
                     "heroine_1") = 6

\* C9: exportData holds exactly the declared flags that differ from their
\* default; setting a declared flag to its default, exporting and importing
\* into a fresh store gives that key the value of a store where it was never
\* set, and every other key the value it gets without that set.
C9_SparseExportImport ==
    LET S == FlagStore
        X == Flag_exportData(S)
        R == Flag_importData(FlagManager_new, X).st
    IN /\ DOMAIN X = {k \in DOMAIN S.definitions : Flag_get(S, k) # S.definitions[k]}
       /\ \A k \in DOMAIN X : X[k] = Flag_get(S, k)
       /\ \A k \in DOMAIN S.definitions :
            LET S1 == Flag_set(S, k, S.definitions[k]).st
                X1 == Flag_exportData(S1)
                R1 == Flag_importData(FlagManager_new, X1).st
            IN /\ k \notin DOMAIN X1
               /\ Flag_get(R1, k) = Flag_get(FlagManager_new, k)
               /\ \A q \in FlagKeys \ {k} : Flag_get(R1, q) = Flag_get(R, q)

\* a declared flag was set back to its default while another one is exported
C9_Witness ==
    /\ lastOp.op = "Flag.set"
    /\ lastOp.id \in DOMAIN definitions
    /\ lastOp.ok = definitions[lastOp.id]
    /\ Len(emitted) = 1
    /\ lastOp.id \notin DOMAIN Flag_exportData(FlagStore)
    /\ Flag_exportData(FlagStore) # <<>>

\* C10: unlockCharacter, unlockEnding and recordEvent change state and emit
\* their notification only when the entry is new; a repeated call does
\* nothing, and endings and events never hold a duplicate id.
C10_Idempotent ==
    /\ [](\A c \in DOMAIN characters :
            NoDup(characters[c].endings) /\ NoDup(characters[c].events))
    /\ [][(nops' # nops /\ lastOp'.id \in Characters) =>
            LET c == lastOp'.id
                e == lastOp'.id2
                isNew == CASE lastOp'.op = "unlockCharacter" -> ~characters[c].unlocked
                           [] lastOp'.op = "unlockEnding" -> ~includes(characters[c].endings, e)
                           [] lastOp'.op = "recordEvent" -> ~includes(characters[c].events, e)
                           [] OTHER -> FALSE
            IN (lastOp'.op \in {"unlockCharacter", "unlockEnding", "recordEvent"}) =>
                 IF isNew
                 THEN /\ Len(emitted') = 1
                      /\ lastOp'.ok
                      /\ characters' # characters
                 ELSE /\ emitted' = <<>>
                      /\ ~lastOp'.ok
                      /\ characters' = characters]_vars

\* unlockCharacter was called again on a character that is already unlocked
C10_Witness ==
    /\ lastOp.op = "unlockCharacter"
    /\ lastOp.id \in Characters
    /\ ~lastOp.ok
    /\ characters[lastOp.id].unlocked
    /\ emitted = <<>>


\* C6: DialogSystem.selectChoice of a choice that carries favor deltas moves
\* each named character's ledger value by the delta (within the range) and
\* the ledger emits its affinity-changed notification for every value moved.
C6_ChoiceDeltasReachLedger ==
    [][(lastOp'.op = "Dialog.selectChoice" /\ nops' # nops
          /\ lastOp'.id2 = "applied") =>
        LET choice == CHOOSE ch \in Range(dialog.currentNode.choices) :
                          ch.id = lastOp'.id
        IN \A i \in 1..Len(choice.favorChange) :
              LET c == choice.favorChange[i][1]
                  d == choice.favorChange[i][2]
                  want == Clamp(characters[c].favor + d, characters[c].maxFavor)
              IN c \in Characters =>
                    /\ characters'[c].favor = want
                    /\ want # characters[c].favor =>
                          \E k \in 1..Len(emitted') :
                              /\ emitted'[k].ev = "favorChanged"
                              /\ emitted'[k].characterId = c]_vars


\* C3: continueGame(slot) on a slot the game saved brings back what the game
\* held when that record was written: every character's affinity, unlocked
\* mark, endings and events, every flag as it reads, and the story's chapter
\* and node, whatever changed in between.
C3_RoundTripRestores ==
    [][(lastOp'.op = "continueGame" /\ nops' # nops /\ lastOp'.id2 = "data"
          /\ snap[lastOp'.n].defined) =>
        LET s == snap[lastOp'.n]
            after == [flags |-> flags', definitions |-> definitions']
        IN /\ Character_exportData(characters') = s.characters
           /\ \A k \in FlagKeys : Flag_get(after, k) = s.flags[k]
           /\ story'.currentChapter = s.chapter
           /\ story'.currentNodeId = s.node]_vars

\* C4: while a save() is between its guard and its finally block, no other
\* save() gets past the guard: a call made in that window, directly or
\* through autoSave(), returns false, leaves the storage as it was and emits
\* nothing, and the first call is still the one in progress.
C4_SaveNotReentrant ==
    /\ [](saveFrame.pc = "emitting" => saveLoad.isSaving)
    /\ [][(lastOp'.op \in {"save", "autoSave"} /\ lastOp'.id2 = "nested"
              /\ nops' # nops) =>
            /\ lastOp'.ok = FALSE
            /\ lastOp'.ret <= 1
            /\ storage' = storage
            /\ saveLoad'.isSaving
            /\ lastOp'.op = "save" => saveLoad' = saveLoad
            /\ emitted' = <<>>]_vars

\* a save() on a valid slot called by a listener of saveSuccess
C4_Witness ==
    /\ lastOp.op = "save"
    /\ lastOp.id2 = "nested"
    /\ lastOp.n \in Slots
    /\ saveFrame.pc = "emitting"
    /\ storage[saveFrame.slot] # NoItem

\* C7: load(slot) returns a record or null for whatever the slot holds; it
\* does not throw.
C7_LoadNeverThrows ==
    [][(lastOp'.op = "load" /\ nops' # nops) => lastOp'.id2 # "throw"]_vars

\* the favorChanged notifications of the last call that carry this delta and
\* this new value for this character
FavorChangedWith(evs, c, d, v) ==
    {k \in 1..Len(evs) :
        /\ evs[k].ev = "favorChanged"
        /\ evs[k].characterId = c
        /\ evs[k].delta = d
        /\ evs[k].newValue = v}

\* C11 as stated: for every known character and every delta, changeFavor
\* returns newValue - oldValue and emits a change notification whose delta is
\* the returned value and whose newValue is the affinity after the call.
C11_AlwaysNotifies ==
    [][(lastOp'.op = "changeFavor" /\ nops' # nops /\ lastOp'.id \in Characters) =>
        LET c == lastOp'.id
        IN /\ lastOp'.ret = characters'[c].favor - characters[c].favor
           /\ FavorChangedWith(emitted', c, lastOp'.ret, characters'[c].favor) # {}]_vars

\* C11: changeFavor returns newValue - oldValue, the new value being the old
\* one plus the delta cut to [0, maxFavor]; when the returned value is not 0
\* it emits exactly one change notification, whose delta is the returned
\* value and whose newValue is the affinity after the call; when the
\* returned value is 0 it emits none.
C11_ActualDeltaReported ==
    [][(lastOp'.op = "changeFavor" /\ nops' # nops /\ lastOp'.id \in Characters) =>
        LET c == lastOp'.id
            want == Clamp(characters[c].favor + lastOp'.n, characters[c].maxFavor)
        IN /\ characters'[c].favor = want
           /\ lastOp'.ret = characters'[c].favor - characters[c].favor
           /\ CountEv(emitted', "favorChanged") = IF lastOp'.ret # 0 THEN 1 ELSE 0
           /\ lastOp'.ret # 0 =>
                 FavorChangedWith(emitted', c, lastOp'.ret, characters'[c].favor) # {}]_vars

\* a delta was cut at a bound to a value that is neither the request nor 0
C11_Witness ==
    /\ lastOp.op = "changeFavor"
    /\ lastOp.id \in Characters
    /\ lastOp.ret # lastOp.n
    /\ lastOp.ret # 0
    /\ FavorChangedWith(emitted, lastOp.id, lastOp.ret, characters[lastOp.id].favor) # {}

\* C12: after any sequence of changeFavor, reset, and import or apply of
\* whatever snapshot the storage holds, every character's affinity lies
\* within [0, maxFavor].
C12_FavorBoundedAfterImport ==
    \A c \in Characters : characters[c].favor \in 0..characters[c].maxFavor

\* C13: goBack() on an empty stack returns false, changes nothing and emits
\* nothing; on a non-empty stack the top entry is removed and a transition
\* to it is requested: when that transition is allowed from the current
\* state the call returns true, the machine is in the popped state with the
\* state it left as previous state, and one stateChanged is emitted; when it
\* is not allowed the call returns false and emits nothing, the current and
\* previous state stay, and the entry is gone all the same.
C13_GoBack ==
    [][(lastOp'.op = "goBack" /\ nops' # nops) =>
        IF stateStack = <<>>
        THEN /\ lastOp'.ok = FALSE
             /\ UNCHANGED <<currentState, previousState, stateStack, dialogState>>
             /\ emitted' = <<>>
        ELSE LET n == Len(stateStack)
                 popped == stateStack[n]
                 rest == SubSeq(stateStack, 1, n - 1)
             IN IF popped \in STATE_TRANSITIONS[currentState]
                THEN /\ lastOp'.ok = TRUE
                     /\ currentState' = popped
                     /\ previousState' = currentState
                     /\ stateStack' = IF <<currentState, popped>> \in pushStates
                                      THEN Append(rest, currentState) ELSE rest
                     /\ emitted' = <<[ev |-> "stateChanged", oldState |-> currentState,
                                      newState |-> popped]>>
                ELSE /\ lastOp'.ok = FALSE
                     /\ UNCHANGED <<currentState, previousState>>
                     /\ stateStack' = rest
                     /\ emitted' = <<>>]_vars

\* goBack() took the machine from dialog back to playing
C13_Witness ==
    /\ lastOp.op = "goBack"
    /\ lastOp.ok
    /\ currentState = "playing"
    /\ previousState = "dialog"
    /\ CountEv(emitted, "stateChanged") = 1

\* C14: for every legal transition from s to t, changeState(t) returns true,
\* sets previousState = s and currentState = t, appends s to the history
\* stack if and only if (s, t) is one of the returnable pairs and leaves the
\* stack alone otherwise, and emits exactly one notification, a stateChanged
\* with oldState = s and newState = t.
C14_LegalTransition ==
    [][(lastOp'.op = "changeState" /\ nops' # nops
          /\ lastOp'.id \in STATE_TRANSITIONS[currentState]) =>
        LET s == currentState
            t == lastOp'.id
        IN /\ lastOp'.ok = TRUE
           /\ previousState' = s
           /\ currentState' = t
           /\ (<<s, t>> \in pushStates) => stateStack' = Append(stateStack, s)
           /\ (<<s, t>> \notin pushStates) => stateStack' = stateStack
           /\ emitted' = <<[ev |-> "stateChanged", oldState |-> s, newState |-> t]>>]_vars

\* playing -> pause was taken and playing is on top of the stack, above the
\* main_menu that the start of the game left there
C14_Witness ==
    /\ lastOp.op = "changeState"
    /\ lastOp.ok
    /\ currentState = "pause"
    /\ previousState = "playing"
    /\ stateStack = <<"main_menu", "playing">>
    /\ CountEv(emitted, "stateChanged") = 1

\* C15: a slot is written, by save() or by autoSave(), only while canSave()
\* holds, and a loaded snapshot is applied, by continueGame or loadGame,
\* only while canLoad() holds.
C15_SaveLoadGated ==
    [][/\ (lastOp'.op \in {"save", "autoSave"} /\ nops' # nops
              /\ storage' # storage) => canSave(Machine)
       /\ (lastOp'.op \in {"continueGame", "loadGame"} /\ nops' # nops
              /\ lastOp'.id2 = "data") => canLoad(Machine)]_vars

\* what a condition asks of the Flag Store, the story's own flags and the
\* Affinity Ledger, as the content states it
ConditionHolds(cond) ==
    CASE cond.type = "flag" ->
            /\ cond.target # ""
            /\ cond.flag \in {Flag_get(FlagStore, cond.target), getLocalFlag(World, cond.target)}
      [] cond.type = "favor" ->
            /\ cond.target \in DOMAIN characters
            /\ characters[cond.target].favor >= cond.value
      [] cond.type = "chapter" -> story.visitedNodes # {}
      [] OTHER -> TRUE

\* C16: playChapter(chapterId) on a chapter whose unlock condition, of
\* whatever type, does not hold of the current flags and affinities returns
\* false, emits chapterLocked and nothing else, and leaves the current
\* chapter, the current node, the visited nodes and the mode state alone.
C16_LockedChapterIsNoOp ==
    [][(lastOp'.op = "Story.playChapter" /\ nops' # nops
          /\ lastOp'.id \in ChapterIds) =>
        LET chapter == StoryChapters[findIndex(lastOp'.id)]
        IN (chapter.unlockCondition # NoCondition
              /\ ~ConditionHolds(chapter.unlockCondition)) =>
                /\ lastOp'.ok = FALSE
                /\ emitted' = <<[ev |-> "chapterLocked", id |-> lastOp'.id]>>
                /\ story' = story
                /\ UNCHANGED <<currentState, previousState, stateStack, dialogState>>
                /\ dialog'.currentNode = dialog.currentNode]_vars

\* the id names no node of the current chapter, or there is no chapter
MissingNode(nodeId) ==
    \/ story.currentChapter = ""
    \/ nodeId \notin DOMAIN StoryChapters[findIndex(story.currentChapter)].nodes

\* C17: playNode(nodeId) with an id that is not in the current chapter, or
\* with no current chapter, returns false and changes nothing: cursor,
\* visited nodes, affinities, flags, mode state and the DialogSystem stay
\* and nothing is emitted.  The same holds of the playNode that next() calls
\* on a dangling next link, and of the one selectChoice(choice) calls on a
\* dangling target: it returns false, moves neither cursor nor mode, adds no
\* visited node, leaves the DialogSystem alone and plays no node.
C17_MissingNodeIsNoOp ==
    [][/\ (lastOp'.op = "Story.playNode" /\ nops' # nops
              /\ MissingNode(lastOp'.id)) =>
                /\ lastOp'.ok = FALSE
                /\ emitted' = <<>>
                /\ UNCHANGED <<story, dialog, characters, flags, definitions,
                               currentState, previousState, stateStack, dialogState>>
       /\ (lastOp'.op = "Story.next" /\ nops' # nops
              /\ ~MissingNode(story.currentNodeId)
              /\ CurrentChapter(World).nodes[story.currentNodeId].next # ""
              /\ MissingNode(CurrentChapter(World).nodes[story.currentNodeId].next)) =>
                /\ lastOp'.ok = FALSE
                /\ emitted' = <<>>
                /\ UNCHANGED <<story, dialog, characters, flags, definitions,
                               currentState, previousState, stateStack, dialogState>>
       /\ (lastOp'.op = "Story.selectChoice" /\ nops' # nops
              /\ MissingNode(lastOp'.id2)) =>
                /\ lastOp'.ok = FALSE
                /\ CountEv(emitted', "nodePlayed") = 0
                /\ CountEv(emitted', "stateChanged") = 0
                /\ story'.currentNodeId = story.currentNodeId
                /\ story'.currentChapter = story.currentChapter
                /\ story'.visitedNodes = story.visitedNodes
                /\ UNCHANGED <<dialog, flags, definitions,
                               currentState, previousState, stateStack, dialogState>>]_vars

\* next() at the last node of ch02, whose next link names no node
C17_Witness ==
    /\ lastOp.op = "Story.next"
    /\ lastOp.ok = FALSE
    /\ story.currentChapter = "ch02"
    /\ story.currentNodeId = "ch02_start"
    /\ emitted = <<>>

\* the ids of the end nodes among the nodes the last call played
EndNodesPlayed(evs, chapterId) ==
    {k \in 1..Len(evs) :
        /\ evs[k].ev = "nodePlayed"
        /\ chapterId \in ChapterIds
        /\ evs[k].id \in DOMAIN StoryChapters[findIndex(chapterId)].nodes
        /\ StoryChapters[findIndex(chapterId)].nodes[evs[k].id].type = "end"}

\* C18: whenever a call plays an end node while the mode is playing, dialog,
\* choice or event, the mode after the call is ending.
C18_EndNodeReachesEnding ==
    [][(nops' # nops
          /\ currentState \in {"playing", "dialog", "choice", "event"}
          /\ EndNodesPlayed(emitted', story'.currentChapter) # {}) =>
        currentState' = "ending"]_vars

\* the ids of the node's choices whose conditions all hold, in order
AvailableIds(node) ==
    LET AllHold(ch) == \A i \in 1..Len(ch.conditions) : ConditionHolds(ch.conditions[i])
        sel == SelectSeq(node.choices, AllHold)
    IN [i \in 1..Len(sel) |-> sel[i].id]

\* C19: when a choice node is played, the choices-shown list holds exactly
\* the choices of the node whose conditions all hold of the flags and
\* affinities at that moment, in their original order.
C19_OnlyAvailableChoicesShown ==
    [][(nops' # nops) =>
        \A k \in 1..Len(emitted') :
            emitted'[k].ev = "choicesShown" =>
                emitted'[k].choices = AvailableIds(dialog.currentNode)']_vars

\* C20: DialogSystem.selectChoice(choiceId) is ignored when no node has been
\* played yet or when choiceId is no choice of the current node: it returns
\* without throwing, emits nothing, and changes neither affinities, flags,
\* story cursor, mode state nor the DialogSystem.
C20_UnknownChoiceIgnored ==
    [][(lastOp'.op = "Dialog.selectChoice" /\ nops' # nops
          /\ (\/ dialog.currentNode = NullNode
              \/ \A ch \in Range(dialog.currentNode.choices) : ch.id # lastOp'.id)) =>
        /\ lastOp'.id2 = "ignored"
        /\ emitted' = <<>>
        /\ UNCHANGED <<story, dialog, characters, flags, definitions,
                       currentState, previousState, stateStack, dialogState>>]_vars

(***************************************************************************)
(* C21  The choice history reaches the snapshot: a save() or autoSave()    *)
(* that writes a record stores, as player.choices, the ids of the choices  *)
(* selected so far, in selection order.                                    *)
(***************************************************************************)
SaveWrote ==
    /\ lastOp'.op \in {"save", "autoSave"} /\ nops' # nops
    /\ lastOp'.n \in Slots
    /\ storage'[lastOp'.n] # storage[lastOp'.n]

WrittenRecord == storage'[lastOp'.n].data

C21_SnapshotCarriesChoices ==
    [][SaveWrote => WrittenRecord.player.value.choices = story.choiceHistory]_vars

(***************************************************************************)
(* C22  A choice without a target ends the chapter: when a choice of the   *)
(* node on screen that names no next node is selected, the end-of-chapter  *)
(* handling runs (the next chapter is tried, or the story ends) and the    *)
(* game is not left in choice mode with the choice panel hidden.           *)
(***************************************************************************)
NoTargetChoice(id) ==
    /\ dialog.currentNode # NullNode
    /\ \E c \in Range(dialog.currentNode.choices) : c.id = id /\ c.next = ""

EndOfChapterRan(evs) ==
    \E i \in 1..Len(evs) : evs[i].ev \in {"chapterStarted", "chapterLocked", "storyEnded"}

C22_NoTargetEndsChapter ==
    [][(lastOp'.op \in {"Story.selectChoice", "Dialog.selectChoice"}
          /\ nops' # nops /\ NoTargetChoice(lastOp'.id)) =>
        /\ EndOfChapterRan(emitted')
        /\ ~(currentState' = "choice" /\ ~dialog'.choicePanel)]_vars

(***************************************************************************)
(* C23  Advancing past the last node of a chapter: when next() is called   *)
(* in the course of the story on a node that is not a choice and has no    *)
(* next node, the chapter that follows in the                              *)
(* declaration order is started if there is one and its unlock condition   *)
(* holds; otherwise the mode becomes ending and storyEnded is emitted      *)
(* exactly once.                                                           *)
(***************************************************************************)
AtLastNode ==
    /\ story.currentChapter \in ChapterIds
    /\ story.currentNodeId \in DOMAIN CurrentChapter(World).nodes
    /\ CurrentChapter(World).nodes[story.currentNodeId].next = ""
    /\ dialog.currentNode = CurrentChapter(World).nodes[story.currentNodeId]
    /\ dialog.currentNode.type # "choice"
    /\ currentState \in {"playing", "dialog", "event", "ending"}

NextChapterUnlockable ==
    LET i == findIndex(story.currentChapter)
    IN /\ i < Len(StoryChapters)
       /\ \/ StoryChapters[i + 1].unlockCondition = NoCondition
          \/ ConditionHolds(StoryChapters[i + 1].unlockCondition)

C23_EndOfChapter ==
    [][(nops' # nops /\ AtLastNode
          /\ \/ lastOp'.op = "Story.next"
             \/ lastOp'.op = "Dialog.next" /\ ~dialog.isTyping) =>
        IF NextChapterUnlockable
        THEN /\ story'.currentChapter =
                    StoryChapters[findIndex(story.currentChapter) + 1].id
             /\ CountEv(emitted', "chapterStarted") = 1
        ELSE /\ currentState' = "ending"
             /\ CountEv(emitted', "storyEnded") = 1]_vars

(***************************************************************************)
(* C24  The snapshot records the story position: a record written by       *)
(* save() or autoSave() has, as chapter and node, the chapter id and the   *)
(* node id the story is at when the call is made.                          *)
(***************************************************************************)
C24_SnapshotRecordsPosition ==
    [][SaveWrote =>
        /\ WrittenRecord.chapter = story.currentChapter
        /\ WrittenRecord.node = story.currentNodeId]_vars

(***************************************************************************)
(* C25  Applying a snapshot replaces the ledger: after continueGame,       *)
(* loadGame or applySaveData has applied a record, every character has the *)
(* affinity, unlocked mark, endings and events the record gives it, and a  *)
(* character the record does not mention has none left from before.        *)
(***************************************************************************)
SnapshotApplied ==
    /\ nops' # nops
    /\ \/ lastOp'.op \in {"continueGame", "loadGame"} /\ lastOp'.id2 = "data"
       \/ lastOp'.op = "applySaveData"

LedgerOf(data) ==
    [c \in Characters |->
        IF data.characters.defined /\ c \in DOMAIN data.characters.value
        THEN data.characters.value[c]
        ELSE Character_exportData(initializeCharacters)[c]]

C25_ImportReplacesLedger ==
    [][SnapshotApplied =>
        Character_exportData(characters') =
            LedgerOf(getStorage(storage, lastOp'.n).data)]_vars

(***************************************************************************)
(* C26  Auto-save is rate-limited: an autoSave() that writes a slot comes  *)
(* at least autoSaveInterval after the auto-save that wrote before it, and *)
(* an autoSave() called sooner than that writes nothing and returns false. *)
(***************************************************************************)
AutoSaveCalled == lastOp'.op = "autoSave" /\ nops' # nops /\ now' = now

C26_AutoSaveRateLimited ==
    [][/\ (AutoSaveCalled /\ storage' # storage /\ hist.autoTime # -1) =>
              now - hist.autoTime >= saveLoad.autoSaveInterval
       /\ (AutoSaveCalled /\ hist.autoTime # -1
              /\ now - hist.autoTime < saveLoad.autoSaveInterval) =>
              /\ storage' = storage
              /\ lastOp'.ok = FALSE]_vars

\* an auto-save has written, and a call that came too soon after it was refused
C26_Witness ==
    /\ hist.autoTime # -1
    /\ now > hist.autoTime /\ now - hist.autoTime < saveLoad.autoSaveInterval
    /\ lastOp.op = "autoSave" /\ lastOp.ok = FALSE /\ lastOp.n = -1
    /\ saveLoad.autoSaveEnabled
    /\ storage[0].kind = "json" /\ storage[0].data.saveTime = hist.autoTime

(***************************************************************************)
(* C27  The slot of an auto-save: an autoSave() that writes, writes the    *)
(* slot of the latest save or load that succeeded and no other; it writes  *)
(* slot 0 when no slot has been used yet or when the slot last used has    *)
(* been deleted since.                                                     *)
(***************************************************************************)
RecentSlot == IF hist.usedSlot >= 0 THEN hist.usedSlot ELSE 0

C27_AutoSaveTargetsRecentSlot ==
    [][(AutoSaveCalled /\ storage' # storage) =>
        /\ lastOp'.n = RecentSlot
        /\ \A i \in Slots \ {RecentSlot} : storage'[i] = storage[i]
        /\ storage'[RecentSlot].kind = "json"
        /\ storage'[RecentSlot].data.slot = RecentSlot]_vars

\* slot 1 was the one last used, and the auto-save wrote it and not slot 0
C27_Witness ==
    /\ lastOp.op = "autoSave" /\ lastOp.ok /\ lastOp.n = 1
    /\ hist.usedSlot = 1 /\ hist.autoTime = now
    /\ storage[1].kind = "json" /\ storage[1].data.saveTime = now
    /\ storage[1].data.chapter = story.currentNodeId /\ story.currentNodeId # ""
    /\ storage[0].kind = "none"

(***************************************************************************)
(* C28  A save that fails says so: save(slot) returns true, or emits       *)
(* saveSuccess, only if the slot then holds the record built by this call; *)
(* when the write fails it returns false and emits saveFailed for the      *)
(* slot; in either case the ledger and the flags are left as they were.    *)
(***************************************************************************)
SaveCalled == lastOp'.op = "save" /\ nops' # nops /\ now' = now

HoldsFreshRecord(store, slot) ==
    /\ slot \in Slots
    /\ store[slot].kind = "json"
    /\ store[slot].data.slot = slot
    /\ store[slot].data.saveTime = now
    /\ store[slot].data.characters = Some(Character_exportData(characters))

C28_FailedSaveReported ==
    [][SaveCalled =>
        /\ (lastOp'.ok \/ CountEv(emitted', "saveSuccess") > 0) =>
              HoldsFreshRecord(storage', lastOp'.n)
        /\ (lastOp'.n \in Slots /\ ~saveLoad.isSaving
              /\ ~HoldsFreshRecord(storage', lastOp'.n)) =>
              /\ lastOp'.ok = FALSE
              /\ \E i \in 1..Len(emitted') :
                    emitted'[i].ev = "saveFailed" /\ emitted'[i].slot = lastOp'.n
        /\ UNCHANGED <<characters, flags, definitions>>]_vars

(***************************************************************************)
(* C29  Play time does not go back: once a record has been loaded and      *)
(* applied, a save() or autoSave() that writes later stores a playTime no  *)
(* smaller than the playTime of the record that was restored.              *)
(***************************************************************************)
C29_PlayTimeMonotone ==
    [][SaveWrote => WrittenRecord.player.value.playTime >= hist.restored]_vars

(***************************************************************************)
(* C30  A new game starts from nothing: after startNewGame() every         *)
(* character has affinity 0, is locked and has no endings and no events,   *)
(* and every flag key, declared or set earlier, reads its declared default *)
(* (false when it has none).                                               *)
(***************************************************************************)
DeclaredDefault(k) == IF k \in DOMAIN definitions THEN definitions[k] ELSE FALSE

C30_NewGameResetsAll ==
    [][(lastOp'.op = "startNewGame" /\ nops' # nops) =>
        /\ \A c \in Characters :
              /\ characters'[c].favor = 0
              /\ characters'[c].unlocked = FALSE
              /\ characters'[c].endings = <<>>
              /\ characters'[c].events = <<>>
        /\ \A k \in FlagKeys :
              Flag_get([flags |-> flags', definitions |-> definitions'], k)
                  = DeclaredDefault(k)]_vars

(***************************************************************************)
(* Conditions evaluated one at a time, by each of the three evaluators.    *)
(***************************************************************************)
ConditionTypes == {"flag", "favor", "chapter", "item", "weather"}
\* the tags the content format declares
KnownConditionTypes == {"flag", "favor", "chapter", "item"}
ConditionInputs ==
    {Condition(t, tg, 0, f) : t \in ConditionTypes, tg \in {"polite", "heroine_1"},
                              f \in BOOLEAN}

DoFlagCheckCondition(condition) ==
    /\ lastOp' = Op("Flag.checkCondition", condition.type, condition.target, 0,
                    Flag_checkCondition(FlagStore, condition), 0)
    /\ emitted' = <<>>
    /\ UNCHANGED <<ledgerVars, modeVars, flagVars, storyVars, saveVars>>

DoStoryCheckCondition(condition) ==
    /\ lastOp' = Op("Story.checkCondition", condition.type, condition.target, 0,
                    Story_checkCondition(World, condition), 0)
    /\ emitted' = <<>>
    /\ UNCHANGED <<ledgerVars, modeVars, flagVars, storyVars, saveVars>>

DoDialogCheckConditions(conditions) ==
    /\ lastOp' = Op("Dialog.checkConditions", conditions[1].type, conditions[1].target,
                    0, Dialog_checkConditions(World, conditions), 0)
    /\ emitted' = <<>>
    /\ UNCHANGED <<ledgerVars, modeVars, flagVars, storyVars, saveVars>>

CondFlagSet == Tick(MaxCondOps) /\ \E v \in BOOLEAN : DoFlagSet("polite", v)
CondFlagCheck == Tick(MaxCondOps) /\ \E c \in ConditionInputs : DoFlagCheckCondition(c)
CondStoryCheck == Tick(MaxCondOps) /\ \E c \in ConditionInputs : DoStoryCheckCondition(c)
CondDialogCheck ==
    Tick(MaxCondOps) /\ \E c \in ConditionInputs : DoDialogCheckConditions(<<c>>)

NextCond ==
    \/ CondFlagSet
    \/ CondFlagCheck
    \/ CondStoryCheck
    \/ CondDialogCheck

SpecCond == Init /\ [][NextCond]_vars

(***************************************************************************)
(* C31  Conditions fail closed: a condition whose type is none of the      *)
(* declared ones evaluates to false, in FlagManager.checkCondition, in     *)
(* StoryManager.checkCondition and in DialogSystem.checkConditions.        *)
(***************************************************************************)
C31_UnknownConditionIsFalse ==
    [][(lastOp'.op \in {"Flag.checkCondition", "Story.checkCondition",
                        "Dialog.checkConditions"}
          /\ nops' # nops /\ lastOp'.id \notin KnownConditionTypes) =>
        lastOp'.ok = FALSE]_vars

(***************************************************************************)
(* C32  Flag effects reach the Flag Store: after a choice that carries a   *)
(* flag effect (key, value) has been selected, FlagManager.get(key)        *)
(* returns value.                                                          *)
(***************************************************************************)
ChoiceTaken ==
    /\ nops' # nops
    /\ \/ lastOp'.op = "Story.selectChoice"
       \/ lastOp'.op = "Dialog.selectChoice" /\ lastOp'.id2 = "applied"

C32_FlagEffectReachesStore ==
    [][ChoiceTaken =>
        \A c \in AllChoices : c.id = lastOp'.id =>
            \A i \in 1..Len(c.effects) : c.effects[i].type = "flag" =>
                Flag_get([flags |-> flags', definitions |-> definitions'],
                         c.effects[i].target) = c.effects[i].flag]_vars

(***************************************************************************)
(* C33  A dialog or narration node waits for the advance signal: while     *)
(* such a node is presented, a step taken by a timer of the DialogSystem   *)
(* (a typing tick, a delayed callback) changes neither the current node    *)
(* nor the mode.                                                           *)
(***************************************************************************)
TimerStep ==
    /\ nops' # nops
    /\ lastOp'.op \in {"Dialog.typingTick", "Dialog.timeout"}

PresentingText ==
    /\ dialog.currentNode.type \in {"dialog", "narration"}
    /\ story.currentNodeId = dialog.currentNode.id

C33_AdvanceOnlyOnSignal ==
    [][(TimerStep /\ PresentingText) =>
        /\ story'.currentNodeId = story.currentNodeId
        /\ dialog'.currentNode = dialog.currentNode
        /\ currentState' = currentState]_vars

(***************************************************************************)
(* C34  A recorded transition can be undone: when changeState has just     *)
(* taken the machine from `from' to `to' and (from, to) is one of the      *)
(* pairs that push onto the history stack, a goBack() called next returns  *)
(* true and makes `from' the current state again.                          *)
(***************************************************************************)
JustPushed ==
    /\ lastOp.op = "changeState" /\ lastOp.ok
    /\ <<previousState, currentState>> \in pushStates
    /\ stateStack # <<>> /\ stateStack[Len(stateStack)] = previousState

C34_GoBackUndoesPush ==
    [][(JustPushed /\ lastOp'.op = "goBack" /\ nops' # nops) =>
        /\ lastOp'.ok = TRUE
        /\ currentState' = previousState]_vars

(***************************************************************************)
(* C35  A goBack() that returns false changes nothing in the mode state    *)
(* machine: current state, previous state and the history stack are the    *)
(* same after the call as before, so the entry it tried to return to is    *)
(* still on the stack.                                                     *)
(***************************************************************************)
GoBackRejected == lastOp'.op = "goBack" /\ nops' # nops /\ lastOp'.ok = FALSE

C35_RejectedGoBackKeepsStack ==
    [][GoBackRejected =>
        /\ currentState' = currentState
        /\ previousState' = previousState
        /\ stateStack' = stateStack]_vars

\* C35 as the code has it: a goBack() that returns false leaves the current
\* and previous state unchanged and emits nothing; an empty stack stays
\* empty, and a non-empty stack has lost the entry the call tried to return to.
C35_RejectedGoBackKeepsState ==
    [][GoBackRejected =>
        /\ currentState' = currentState
        /\ previousState' = previousState
        /\ emitted' = <<>>
        /\ stateStack' = IF stateStack = <<>> THEN <<>>
                         ELSE SubSeq(stateStack, 1, Len(stateStack) - 1)]_vars

C35_Witness ==
    /\ lastOp.op = "goBack" /\ lastOp.ok = FALSE
    /\ currentState = "save_load" /\ previousState = "pause"
    /\ stateStack = <<"main_menu", "playing">>

(***************************************************************************)
(* The event emitter of the main menu module.  A registered callback is a  *)
(* record: fn names the function the caller passed, once says that the     *)
(* registered function is the wrapper once() builds around it.  An event   *)
(* without an entry in the map and an event with an empty array behave     *)
(* alike, so both are the empty sequence.                                  *)
(***************************************************************************)
Listener(fn, once) == [fn |-> fn, once |-> once]

\* Array.prototype.indexOf, 1-based; 0 when absent
indexOf(s, x) ==
    IF \E i \in 1..Len(s) : s[i] = x
    THEN CHOOSE i \in 1..Len(s) : s[i] = x /\ \A j \in 1..(i - 1) : s[j] # x
    ELSE 0

\* Array.prototype.splice(index, 1), 1-based
splice(s, i) == SubSeq(s, 1, i - 1) \o SubSeq(s, i + 1, Len(s))

Emitter_on(E, event, callback) == [E EXCEPT ![event] = Append(@, callback)]

Emitter_once(E, event, fn) == Emitter_on(E, event, Listener(fn, TRUE))

\* off(event) drops the whole array; off(event, callback) the first match
Emitter_off(E, event, hasCallback, callback) ==
    IF ~hasCallback THEN [E EXCEPT ![event] = <<>>]
    ELSE LET index == indexOf(E[event], callback)
         IN IF index # 0 THEN [E EXCEPT ![event] = splice(@, index)] ELSE E

\* callbacks.forEach(cb => cb(data)) on the live array: index k is visited
\* while k is within the length the array had at the start, and skipped when
\* the array no longer has that index; a once wrapper calls its function and
\* then takes itself out of the array being walked
RECURSIVE forEach(_, _, _, _, _)
forEach(E, event, k, len, called) ==
    IF k > len THEN [st |-> E, called |-> called]
    ELSE IF k > Len(E[event]) THEN forEach(E, event, k + 1, len, called)
    ELSE LET cb == E[event][k]
             E2 == IF cb.once THEN Emitter_off(E, event, TRUE, cb) ELSE E
         IN forEach(E2, event, k + 1, len, Append(called, cb.fn))

Emitter_emit(E, event) == forEach(E, event, 1, Len(E[event]), <<>>)

Emitter_clear(E) == [e \in EventNames |-> <<>>]

MenuStep(op, event, fn, E, called) ==
    /\ menuEvents' = E
    /\ invoked' = called
    /\ emitted' = <<>>
    /\ lastOp' = Op(op, event, fn, 0, TRUE, 0)
    /\ UNCHANGED <<ledgerVars, modeVars, flagVars, storyVars, saveVars>>

DoEmitterOn(event, fn) ==
    MenuStep("EventEmitter.on", event, fn,
             Emitter_on(menuEvents, event, Listener(fn, FALSE)), invoked)

DoEmitterOnce(event, fn) ==
    MenuStep("EventEmitter.once", event, fn, Emitter_once(menuEvents, event, fn), invoked)

DoEmitterOff(event, hasCallback, fn) ==
    MenuStep("EventEmitter.off", event, IF hasCallback THEN fn ELSE "",
             Emitter_off(menuEvents, event, hasCallback, Listener(fn, FALSE)), invoked)

DoEmitterEmit(event) ==
    LET r == Emitter_emit(menuEvents, event)
    IN MenuStep("EventEmitter.emit", event, "", r.st, r.called)

DoEmitterClear == MenuStep("EventEmitter.clear", "", "", Emitter_clear(menuEvents), invoked)

TickEmitter == nops < MaxEmitterOps /\ nops' = nops + 1
HasRoom(event) == Len(menuEvents[event]) < MaxListeners

EmitterOn ==
    TickEmitter /\ \E e \in EventNames, f \in CallbackNames : HasRoom(e) /\ DoEmitterOn(e, f)
EmitterOnce ==
    TickEmitter /\ \E e \in EventNames, f \in CallbackNames : HasRoom(e) /\ DoEmitterOnce(e, f)
EmitterOff ==
    TickEmitter /\ \E e \in EventNames, h \in BOOLEAN, f \in CallbackNames : DoEmitterOff(e, h, f)
EmitterEmit == TickEmitter /\ \E e \in EventNames : DoEmitterEmit(e)
EmitterClear == TickEmitter /\ DoEmitterClear

NextEmitter ==
    \/ EmitterOn
    \/ EmitterOnce
    \/ EmitterOff
    \/ EmitterEmit
    \/ EmitterClear

SpecEmitter == Init /\ [][NextEmitter]_vars

(***************************************************************************)
(* C36  emit(event) calls every callback that is registered for the event  *)
(* at the moment of the call, each exactly once and in registration order, *)
(* also when one of them was registered with once() and removes itself     *)
(* while the event is being delivered.                                     *)
(***************************************************************************)
RegisteredFns(event) == [i \in 1..Len(menuEvents[event]) |-> menuEvents[event][i].fn]

C36_EmitReachesEveryCallback ==
    [][(lastOp'.op = "EventEmitter.emit" /\ nops' # nops) =>
        invoked' = RegisteredFns(lastOp'.id)]_vars

(***************************************************************************)
(* C37  The busy flag of save() is released whenever no save() is running: *)
(* after the outermost call has returned, however it and the calls nested  *)
(* in it ended, _isSaving is false, and the next save() on a valid slot    *)
(* gets past the guard.                                                    *)
(***************************************************************************)
C37_BusyFlagReleased ==
    /\ [](Idle => ~saveLoad.isSaving)
    /\ [][(Idle /\ lastOp'.op = "save" /\ nops' # nops /\ now' = now
              /\ lastOp'.n \in Slots) =>
            /\ lastOp'.ok = TRUE
            /\ lastOp'.id2 = "emitting"]_vars

\* a save() on slot 1 is past the guard after a save() on slot 0 has returned
C37_Witness ==
    /\ saveFrame.pc = "emitting" /\ saveFrame.op = "save" /\ saveFrame.slot = 1
    /\ lastOp.op = "save" /\ lastOp.id2 = "emitting" /\ lastOp.ok
    /\ storage[0] # NoItem

(***************************************************************************)
(* C38  A choice whose conditions fail cannot be taken: when the last call *)
(* showed the choices of the current node and a choice of that node has a  *)
(* condition that does not hold, so that it has no place in the shown      *)
(* list, DialogSystem.selectChoice with its id changes no affinity, no     *)
(* flag and no story-local flag, and does not move to another node.        *)
(***************************************************************************)
ChoicesJustShown == \E k \in 1..Len(emitted) : emitted[k].ev = "choicesShown"

FilteredChoice(id) ==
    /\ dialog.currentNode # NullNode
    /\ \E ch \in Range(dialog.currentNode.choices) : ch.id = id
    /\ \A i \in 1..Len(AvailableIds(dialog.currentNode)) :
          AvailableIds(dialog.currentNode)[i] # id

TimerStartNewGame == Tick(MaxTimerOps) /\ DoStartNewGame
TimerSetAutoMode == Tick(MaxTimerOps) /\ \E b \in BOOLEAN : DoSetAutoMode(b)
TimerDialogNext == Tick(MaxTimerOps) /\ DoDialogNext
TimerPlayNode == Tick(MaxTimerOps) /\ \E id \in {"ch00_c1", "ch00_02"} : DoStoryPlayNode(id)
TimerTypingTick == Tick(MaxTimerOps) /\ \E last \in BOOLEAN : DoTypingTick(last)
TimerFireTimeout == Tick(MaxTimerOps) /\ \E k \in {"playChoice", "next"} : DoFireTimeout(k)

NextTimer ==
    \/ TimerStartNewGame
    \/ TimerSetAutoMode
    \/ TimerDialogNext
    \/ TimerPlayNode
    \/ TimerTypingTick
    \/ TimerFireTimeout

SpecTimer == Init /\ [][NextTimer]_vars

(***************************************************************************)
(* C39  A delayed callback belongs to the node that scheduled it: when the *)
(* timeout that shows the choices, or the one that advances in auto mode,  *)
(* fires while another node than the one that scheduled it is current, it  *)
(* changes neither the mode nor the current node and shows no choices.     *)
(***************************************************************************)
StaleTimeout ==
    /\ lastOp'.op = "Dialog.timeout" /\ nops' # nops
    /\ dialog.timeouts[lastOp'.id] # <<>>
    /\ Head(dialog.timeouts[lastOp'.id]) # dialog.currentNode.id

C39_StaleTimeoutHasNoEffect ==
    [][StaleTimeout =>
        /\ currentState' = currentState
        /\ story'.currentNodeId = story.currentNodeId
        /\ dialog'.currentNode = dialog.currentNode
        /\ \A k \in 1..Len(emitted') : emitted'[k].ev # "choicesShown"]_vars

(***************************************************************************)
(* A play session as the GameManager runs it: init() has put the machine   *)
(* on the title screen, the slots hold what earlier sessions left, and the *)
(* game is started or continued and then played.                           *)
(***************************************************************************)
PlayEnterMenu == Tick(MaxPlayOps) /\ DoChangeState("main_menu")
PlayStartNewGame == Tick(MaxPlayOps) /\ DoStartNewGame
PlayContinueGame == Tick(MaxPlayOps) /\ Idle /\ \E slot \in {0, 1} : DoContinueGame(slot)
PlayDialogNext == Tick(MaxPlayOps) /\ DoDialogNext
PlaySelectChoice == Tick(MaxPlayOps) /\ \E id \in ChoiceIds : DoDialogSelectChoice(id)
PlayTypingTick == Tick(MaxPlayOps) /\ \E last \in BOOLEAN : DoTypingTick(last)

NextPlay ==
    \/ PlayEnterMenu
    \/ PlayStartNewGame
    \/ PlayContinueGame
    \/ PlayDialogNext
    \/ PlaySelectChoice
    \/ PlayTypingTick

SpecPlay == InitStorage /\ [][NextPlay]_vars

(***************************************************************************)
(* C40  The mode agrees with what is presented: after init(), once the     *)
(* game has been started with startNewGame() or continueGame(slot), the    *)
(* mode is dialog while a dialog or narration node is presented and choice *)
(* while the choices are shown, and isInGame() holds in both cases.        *)
(***************************************************************************)
TextPresented ==
    /\ dialog.dialogBox /\ ~dialog.choicePanel
    /\ dialog.currentNode.type \in {"dialog", "narration"}

ChoicesPresented == dialog.choicePanel

C40_ModeAgreesWithPresentation ==
    /\ TextPresented => currentState = "dialog"
    /\ ChoicesPresented => currentState = "choice"
    /\ (TextPresented \/ ChoicesPresented) => isInGame(Machine)

=============================================================================
